---- MODULE Spec2Model ----
(***************************************************************************)
(* A model of json_tools.h (namespace JT): the incremental Tokenizer, the  *)
(* chunked Serializer and the TokenParser codec.  Bytes are modelled by    *)
(* their ASCII codes, so that the range tests of the scanner are the       *)
(* source's own comparisons.  A DataRef is a (region, offset, size)        *)
(* triple: the region is the id of an input buffer, the intermediate       *)
(* token's name or data string, or static storage.                         *)
(***************************************************************************)
EXTENDS Integers, Sequences, FiniteSets, TLC

VARIABLES tk, token, ret, out, rest, chunks,
          sr, wlog,
          cx

vars == <<tk, token, ret, out, rest, chunks, sr, wlog, cx>>
tokVars == <<tk, token, ret, out, rest, chunks>>
serVars == <<sr, wlog>>
codecVars == <<cx>>

(***************************************************************************)
(* Bytes.                                                                  *)
(***************************************************************************)
NUL == 0
TAB == 9
NL == 10
SPACE == 32
QUOTE == 34
PLUS == 43
COMMA == 44
MINUS == 45
DOT == 46
CH_0 == 48
CH_9 == 57
COLON == 58
CH_A == 65
CH_E == 69
CH_Z == 90
LBRACKET == 91
BSLASH == 92
RBRACKET == 93
CARET == 94
CH_e == 101
CH_z == 122
LBRACE == 123
RBRACE == 125

null_text == <<110, 117, 108, 108>>
true_text == <<116, 114, 117, 101>>
false_text == <<102, 97, 108, 115, 101>>

\* The byte at offset off (0-based, as the source indexes) of a byte sequence.
At(bytes, off) == bytes[off + 1]

Min(a, b) == IF a <= b THEN a ELSE b

\* The size bytes of a byte sequence that start at offset off.
Slice(bytes, off, size) == SubSeq(bytes, off + 1, off + size)

(***************************************************************************)
(* DataRef, Token, IntermediateToken.                                      *)
(***************************************************************************)
\* Regions a DataRef can point into: static storage (string literals), the
\* intermediate token's name and data strings; an input buffer is its id, 1
\* for the first buffer added, 2 for the second, and so on.
STATIC == 0
INAME == -1
IDATA == -2

\* DataRef(): data(""), size(0)
EmptyDataRef == [buf |-> STATIC, off |-> 0, size |-> 0]

MkDataRef(buf, off, size) == [buf |-> buf, off |-> off, size |-> size]

\* Token(): name_type(String), name(), value_type(String), value()
NewToken == [name_type |-> "String", name |-> EmptyDataRef,
             value_type |-> "String", value |-> EmptyDataRef]

NewIntermediateToken ==
    [active |-> FALSE, name_type_set |-> FALSE, data_type_set |-> FALSE,
     name_type |-> "Error", data_type |-> "Error", name |-> <<>>, data |-> <<>>]

\* clear() that leaves the strings and the types as they are.
IntermediateDeactivated(it) == [it EXCEPT !.active = FALSE]

\* IntermediateToken::clear
IntermediateClear(it) == IF ~it.active THEN it ELSE NewIntermediateToken

\* TypeChecker::type that compares no more bytes than the span has.
TypeCheckerPrefix(type, bytes) ==
    IF type # "Ascii" THEN type
    ELSE IF bytes # <<>> /\ Len(bytes) <= Len(null_text)
            /\ bytes = SubSeq(null_text, 1, Len(bytes)) THEN "Null"
    ELSE IF bytes # <<>> /\ Len(bytes) <= Len(true_text)
            /\ bytes = SubSeq(true_text, 1, Len(bytes)) THEN "Bool"
    ELSE IF bytes # <<>> /\ Len(bytes) <= Len(false_text)
            /\ bytes = SubSeq(false_text, 1, Len(bytes)) THEN "Bool"
    ELSE "Ascii"

\* TypeChecker::type: only an Ascii span is reclassified, by length and bytes.
TypeCheckerType(type, bytes) ==
    IF type # "Ascii" THEN type
    ELSE IF Len(null_text) = Len(bytes) /\ bytes = null_text THEN "Null"
    ELSE IF Len(null_text) = Len(bytes) /\ bytes = true_text THEN "Bool"
    ELSE IF Len(false_text) = Len(bytes) /\ bytes = false_text THEN "Bool"
    ELSE "Ascii"

(***************************************************************************)
(* Tokenizer.  The record tk holds the fields of class Tokenizer; added,   *)
(* released and feed are the caller's side of the callbacks: how many      *)
(* buffers addData has received, the pointers the release callbacks were   *)
(* called with, and the buffers the need-more-data callbacks still hold.   *)
(* release_log is the history of releaseFirstDataRef: for every buffer it  *)
(* took from the queue, the error nextToken's loop released it on and the  *)
(* bytes of the buffer the scan had not looked at; scan_stop is the local  *)
(* end of findAsciiEnd when it returned NeedMoreData; registered counts    *)
(* the caller's calls of registerTokenTransformer, rounds the passes       *)
(* through the body of nextToken's retry loop.  callbacks_registered is    *)
(* the history of registerNeedMoreDataCallback (for the n-th call, whether *)
(* it was one-shot and how many requests had been made before it), and     *)
(* requests the history of requestMoreData: for every request, the         *)
(* callbacks it invoked, in the order of the invocations.  asserts is the  *)
(* history of the class's assert statements: the functions whose assert    *)
(* was evaluated and held, and those whose assert was evaluated and did    *)
(* not.                                                                    *)
(***************************************************************************)
\* ErrorContext after clear().  spans and stray are the history of
\* updateErrorContext: the offsets (start, end) its strings were built from,
\* and whether it read a byte outside the buffer or built a string whose
\* end lies in front of its start.
NewErrorContext ==
    [line |-> 0, character |-> 0, error |-> "NoError", lines |-> <<>>,
     spans |-> <<>>, size |-> 0, stray |-> FALSE]

NewTokenizer ==
    [data_list |-> <<>>,
     release_callbacks |-> 0,
     need_more_data_callabcks |-> <<>>,
     cursor_index |-> 0,
     current_data_start |-> 0,
     token_state |-> "FindingName",
     property_state |-> "NoStartFound",
     property_type |-> "Error",
     is_escaped |-> FALSE,
     allow_ascii_properties |-> FALSE,
     allow_new_lines |-> FALSE,
     allow_superfluous_comma |-> FALSE,
     expecting_prop_or_annonymous_data |-> FALSE,
     continue_after_need_more_data |-> FALSE,
     intermediate_token |-> NewIntermediateToken,
     token_transformer |-> FALSE,
     error_context |-> NewErrorContext,
     line_context |-> 4,
     line_range_context |-> 256,
     range_context |-> 38,
     added |-> 0,
     released |-> <<>>,
     feed |-> <<>>,
     callbacks_registered |-> <<>>,
     asserts |-> [held |-> {}, failed |-> {}],
     requests |-> <<>>,
     scan_stop |-> -1,
     registered |-> 0,
     release_log |-> <<>>,
     rounds |-> 0]

\* assert(holds) in the function of the given name.
Asserted(t, name, holds) ==
    IF holds THEN [t EXCEPT !.asserts.held = @ \cup {name}]
    ELSE [t EXCEPT !.asserts.failed = @ \cup {name}]

\* Tokenizer::addData: the buffer is queued; its id stands for its pointer.
addData(t, bytes) ==
    [t EXCEPT !.data_list = Append(@, [id |-> t.added + 1, bytes |-> bytes]),
              !.added = @ + 1]

\* Tokenizer::setErrorContextConfig
setErrorContextConfig(t, lineContext, rangeContext) ==
    [t EXCEPT !.line_context = lineContext, !.range_context = rangeContext]

\* Tokenizer::registerNeedMoreDataCallback
registerNeedMoreDataCallback(t, oneShotCallback) ==
    [t EXCEPT !.need_more_data_callabcks =
                  Append(@, [one_shot |-> oneShotCallback,
                             id |-> Len(t.callbacks_registered) + 1]),
              !.callbacks_registered =
                  Append(@, [one_shot |-> oneShotCallback, at |-> Len(t.requests)])]

\* Tokenizer::registerRelaseCallback
registerRelaseCallback(t) == [t EXCEPT !.release_callbacks = @ + 1]

\* Tokenizer::resetForNewValue
resetForNewValue(t) ==
    [t EXCEPT !.property_state = "NoStartFound",
              !.property_type = "Error",
              !.current_data_start = 0]

\* Tokenizer::resetForNewToken
resetForNewToken(t) ==
    resetForNewValue([t EXCEPT !.intermediate_token = IntermediateClear(@)])

\* The bytes a DataRef points at: a queued buffer, or the intermediate
\* token's strings.  A buffer that left the queue was handed back to the
\* caller: a reference into it dangles and reads as <<-1>>.
Resolve(t, ref) ==
    IF ref.size = 0 THEN <<>>
    ELSE IF ref.buf = INAME THEN Slice(t.intermediate_token.name, ref.off, ref.size)
    ELSE IF ref.buf = IDATA THEN Slice(t.intermediate_token.data, ref.off, ref.size)
    ELSE IF \E i \in 1..Len(t.data_list) : t.data_list[i].id = ref.buf
         THEN LET i == CHOOSE i \in 1..Len(t.data_list) : t.data_list[i].id = ref.buf
              IN Slice(t.data_list[i].bytes, ref.off, ref.size)
    ELSE <<-1>>

RECURSIVE findStringEndFrom(_, _, _, _)
findStringEndFrom(json, cursor, end, esc) ==
    IF end >= Len(json)
    THEN [error |-> "NeedMoreData", chars_ahead |-> 0, is_escaped |-> esc]
    ELSE IF esc THEN findStringEndFrom(json, cursor, end + 1, FALSE)
    ELSE IF At(json, end) = BSLASH THEN findStringEndFrom(json, cursor, end + 1, TRUE)
    ELSE IF At(json, end) = QUOTE
    THEN [error |-> "NoError", chars_ahead |-> end + 1 - cursor, is_escaped |-> esc]
    ELSE findStringEndFrom(json, cursor, end + 1, esc)

\* Tokenizer::findStringEnd: [error, chars_ahead, is_escaped]
findStringEnd(t, json) == findStringEndFrom(json, t.cursor_index, t.cursor_index, t.is_escaped)

IsAsciiStartCode(c) == (c >= CH_A /\ c <= CH_Z) \/ (c >= CARET /\ c <= CH_z)

IsDigitCode(c) == c >= CH_0 /\ c <= CH_9

RECURSIVE findAsciiEndFrom(_, _, _)
findAsciiEndFrom(json, cursor, end) ==
    IF end >= Len(json) THEN [error |-> "NeedMoreData", chars_ahead |-> 0, end |-> end]
    ELSE IF IsAsciiStartCode(At(json, end)) \/ IsDigitCode(At(json, end))
    THEN findAsciiEndFrom(json, cursor, end + 1)
    ELSE IF At(json, end) = NUL
    THEN [error |-> "NeedMoreData", chars_ahead |-> end - cursor, end |-> end]
    ELSE [error |-> "NoError", chars_ahead |-> end - cursor, end |-> end]

\* Tokenizer::findAsciiEnd: [error, chars_ahead, end]
findAsciiEnd(t, json) == findAsciiEndFrom(json, t.cursor_index, t.cursor_index)

IsNumberCode(c) == IsDigitCode(c) \/ c \in {DOT, PLUS, MINUS, CH_e, CH_E}

RECURSIVE findNumberEndFrom(_, _, _)
findNumberEndFrom(json, cursor, end) ==
    IF end >= Len(json) THEN [error |-> "NeedMoreData", chars_ahead |-> 0]
    ELSE IF IsNumberCode(At(json, end)) THEN findNumberEndFrom(json, cursor, end + 1)
    ELSE [error |-> "NoError", chars_ahead |-> end - cursor]

\* Tokenizer::findNumberEnd
findNumberEnd(t, json) == findNumberEndFrom(json, t.cursor_index, t.cursor_index)

IsSkippedCode(c) == c \in {SPACE, NL, TAB, NUL}

\* The chars_ahead findStartOfNextValue reports for an opening quote.
StringStartAhead(current_pos, cursor) == current_pos - cursor + 1

RECURSIVE findStartOfNextValueFrom(_, _, _)
findStartOfNextValueFrom(json, cursor, current_pos) ==
    IF current_pos >= Len(json)
    THEN [error |-> "NeedMoreData", type |-> "Error", chars_ahead |-> 0]
    ELSE LET c == At(json, current_pos)
             here == current_pos - cursor
         IN IF IsSkippedCode(c) THEN findStartOfNextValueFrom(json, cursor, current_pos + 1)
            ELSE IF c = QUOTE
            THEN [error |-> "NoError", type |-> "String",
                  chars_ahead |-> StringStartAhead(current_pos, cursor)]
            ELSE IF c = LBRACE
            THEN [error |-> "NoError", type |-> "ObjectStart", chars_ahead |-> here]
            ELSE IF c = RBRACE
            THEN [error |-> "NoError", type |-> "ObjectEnd", chars_ahead |-> here]
            ELSE IF c = LBRACKET
            THEN [error |-> "NoError", type |-> "ArrayStart", chars_ahead |-> here]
            ELSE IF c = RBRACKET
            THEN [error |-> "NoError", type |-> "ArrayEnd", chars_ahead |-> here]
            ELSE IF c = MINUS \/ c = PLUS \/ IsDigitCode(c)
            THEN [error |-> "NoError", type |-> "Number", chars_ahead |-> here]
            ELSE IF IsAsciiStartCode(c)
            THEN [error |-> "NoError", type |-> "Ascii", chars_ahead |-> here]
            ELSE [error |-> "EncounteredIlligalChar", type |-> "Error", chars_ahead |-> here]

\* Tokenizer::findStartOfNextValue: [error, type, chars_ahead]
findStartOfNextValue(t, json) ==
    findStartOfNextValueFrom(json, t.cursor_index, t.cursor_index)

RECURSIVE findDelimiterFrom(_, _, _)
findDelimiterFrom(json, cursor, end) ==
    IF end >= Len(json)
    THEN [error |-> "NeedMoreData", chars_ahead |-> 0, token_state |-> "FindingDelimiter"]
    ELSE LET c == At(json, end)
         IN IF c = COLON
            THEN [error |-> "NoError", chars_ahead |-> end + 1 - cursor,
                  token_state |-> "FindingData"]
            ELSE IF c = COMMA
            THEN [error |-> "NoError", chars_ahead |-> end + 1 - cursor,
                  token_state |-> "FindingName"]
            ELSE IF c = RBRACKET
            THEN [error |-> "NoError", chars_ahead |-> end - cursor,
                  token_state |-> "FindingName"]
            ELSE IF IsSkippedCode(c) THEN findDelimiterFrom(json, cursor, end + 1)
            ELSE [error |-> "ExpectedDelimiter", chars_ahead |-> 0,
                  token_state |-> "FindingDelimiter"]

\* Tokenizer::findDelimiter: [error, chars_ahead, token_state]
findDelimiter(t, json) == findDelimiterFrom(json, t.cursor_index, t.cursor_index)

RECURSIVE findTokenEndFrom(_, _, _, _)
findTokenEndFrom(json, cursor, end, allow_new_lines) ==
    IF end >= Len(json)
    THEN [error |-> "NeedMoreData", chars_ahead |-> 0, expecting |-> FALSE]
    ELSE LET c == At(json, end)
         IN IF c = COMMA
            THEN [error |-> "NoError", chars_ahead |-> end + 1 - cursor, expecting |-> TRUE]
            ELSE IF c = NL /\ allow_new_lines
            THEN [error |-> "NoError", chars_ahead |-> end + 1 - cursor, expecting |-> FALSE]
            ELSE IF c = RBRACKET \/ c = RBRACE
            THEN [error |-> "NoError", chars_ahead |-> end - cursor, expecting |-> FALSE]
            ELSE IF c \in {NL, SPACE, TAB, NUL}
            THEN findTokenEndFrom(json, cursor, end + 1, allow_new_lines)
            ELSE [error |-> "InvalidToken", chars_ahead |-> end + 1 - cursor,
                  expecting |-> FALSE]

\* Tokenizer::findTokenEnd: [error, chars_ahead, expecting]; expecting says
\* that expecting_prop_or_annonymous_data was set.
findTokenEnd(t, json) ==
    findTokenEndFrom(json, t.cursor_index, t.cursor_index, t.allow_new_lines)

\* The body of a need-more-data callback: the caller's closure hands the
\* tokenizer the next buffer it holds, if it holds one.
NeedMoreDataCallback(t) ==
    IF t.feed = <<>> THEN t
    ELSE addData([t EXCEPT !.feed = Tail(@)], Head(t.feed))

\* pairs.first(*this) for the n-th pair of the list: the callback runs and
\* the request's record gets its id.
Invoked(t, n) ==
    [NeedMoreDataCallback(t) EXCEPT
        !.requests[Len(t.requests)] = Append(@, t.need_more_data_callabcks[n].id)]

RECURSIVE InvokeNeedMoreData(_, _)
\* for (auto pairs: need_more_data_callabcks) pairs.first(*this);
InvokeNeedMoreData(t, n) ==
    IF n = 0 THEN [t EXCEPT !.requests = Append(@, <<>>)]
    ELSE Invoked(InvokeNeedMoreData(t, n - 1), n)

\* The erase of requestMoreData left out: every pair stays in the list.
requestMoreDataKeepingAll(t) ==
    InvokeNeedMoreData(t, Len(t.need_more_data_callabcks))

\* Tokenizer::requestMoreData: every callback runs, then the one-shot ones go.
requestMoreData(t) ==
    LET called == InvokeNeedMoreData(t, Len(t.need_more_data_callabcks))
    IN [called EXCEPT !.need_more_data_callabcks =
                          SelectSeq(@, LAMBDA pair : ~pair.one_shot)]

RECURSIVE CallRelease(_, _, _)
CallRelease(log, ptr, n) == IF n = 0 THEN log ELSE Append(CallRelease(log, ptr, n - 1), ptr)

\* releaseFirstDataRef taking the buffer at the back of the queue.
releaseLastDataRef(t) ==
    LET data_to_release == IF t.data_list = <<>> THEN 0
                           ELSE t.data_list[Len(t.data_list)].id
    IN [t EXCEPT !.data_list = IF @ = <<>> THEN @ ELSE SubSeq(@, 1, Len(@) - 1),
                 !.released = CallRelease(@, data_to_release, t.release_callbacks),
                 !.cursor_index = 0,
                 !.current_data_start = 0]

\* Tokenizer::releaseFirstDataRef: pointer 0 is the null pointer.
releaseFirstDataRef(t) ==
    LET data_to_release == IF t.data_list = <<>> THEN 0 ELSE Head(t.data_list).id
    IN [t EXCEPT !.data_list = IF @ = <<>> THEN @ ELSE Tail(@),
                 !.released = CallRelease(@, data_to_release, t.release_callbacks),
                 !.cursor_index = 0,
                 !.current_data_start = 0]

RECURSIVE strnlen(_, _, _)
\* strnlen(json + off, maxlen): the bytes before the first NUL, at most maxlen.
strnlen(json, off, maxlen) ==
    IF maxlen <= 0 \/ off >= Len(json) \/ At(json, off) = NUL THEN 0
    ELSE 1 + strnlen(json, off + 1, maxlen - 1)

IsContainerType(type) == type \in {"ObjectStart", "ObjectEnd", "ArrayStart", "ArrayEnd"}

\* A span size that keeps the closing quote of a string.
SpanSizeUnadjusted(cursor, start, size_adjustment) == cursor - start

\* The size of a span whose end was found: cursor - start + size_adjustment.
SpanSize(cursor, start, size_adjustment) == cursor - start + size_adjustment


\* populateFromDataRef, the switch on the type: the scan for the value's end.
findEnd(t, type, json) ==
    IF type = "String" THEN findStringEnd(t, json)
    ELSE IF type = "Ascii" THEN findAsciiEnd(t, json)
    ELSE findNumberEnd(t, json)

\* populateFromDataRef after that scan, found being what the scan returned.
populateFoundEnd(t, data, type, found) ==
    LET size_adjustment == IF type = "String" THEN -1 ELSE 0
        t1 == IF type = "String" THEN [t EXCEPT !.is_escaped = found.is_escaped] ELSE t
        cursor == t.cursor_index + found.chars_ahead
    IN IF found.error # "NoError"
       THEN [tk |-> [t1 EXCEPT !.scan_stop = IF type = "Ascii" THEN found.end ELSE -1],
             error |-> found.error, data |-> data, type |-> type]
       ELSE [tk |-> [t1 EXCEPT !.cursor_index = cursor, !.property_state = "FoundEnd"],
             error |-> "NoError",
             data |-> [data EXCEPT !.size =
                          SpanSize(cursor, t.current_data_start, size_adjustment)],
             type |-> type]

\* populateFromDataRef, second half: the scan for the end of the value.
populateFindEnd(t, data, type, json) ==
    IF t.property_state # "FindingEnd"
    THEN [tk |-> t, error |-> "NoError", data |-> data, type |-> type]
    ELSE IF type \notin {"String", "Ascii", "Number"}
    THEN [tk |-> t, error |-> "InvalidToken", data |-> data, type |-> type]
    ELSE IF type = "Ascii"
    THEN populateFoundEnd(Asserted(t, "findAsciiEnd", t.property_type = "Ascii"),
                          data, type, findEnd(t, type, json))
    ELSE populateFoundEnd(t, data, type, findEnd(t, type, json))

\* populateFromDataRef's first half without property_type = *type.
populateFromStartUntyped(t, json, id, start) ==
    IF start.error # "NoError"
    THEN [tk |-> t, error |-> start.error,
          data |-> MkDataRef(id, t.cursor_index, 0), type |-> "Error"]
    ELSE LET diff == start.chars_ahead
             ends == IsContainerType(start.type)
         IN populateFindEnd(
                [t EXCEPT !.current_data_start = t.cursor_index + diff,
                          !.cursor_index = t.cursor_index + diff + 1,
                          !.property_state = IF ends THEN "FoundEnd" ELSE "FindingEnd"],
                MkDataRef(id, t.cursor_index + diff, IF ends THEN 1 ELSE 0),
                start.type, json)

\* populateFromDataRef, first half, start being what findStartOfNextValue
\* returned.
populateFromStart(t, json, id, start) ==
    IF start.error # "NoError"
    THEN [tk |-> t, error |-> start.error,
          data |-> MkDataRef(id, t.cursor_index, 0), type |-> "Error"]
    ELSE LET diff == start.chars_ahead
             ends == IsContainerType(start.type)
         IN populateFindEnd(
                [t EXCEPT !.current_data_start = t.cursor_index + diff,
                          !.cursor_index = t.cursor_index + diff + 1,
                          !.property_type = start.type,
                          !.property_state = IF ends THEN "FoundEnd" ELSE "FindingEnd"],
                MkDataRef(id, t.cursor_index + diff, IF ends THEN 1 ELSE 0),
                start.type, json)

\* Tokenizer::populateFromDataRef: [tk, error, data, type], data and type
\* being the out-parameters.
populateFromDataRef(t, type, json, id) ==
    IF t.property_state = "NoStartFound"
    THEN populateFromStart(Asserted(t, "findStartOfNextValue",
                                    t.property_state = "NoStartFound"),
                           json, id, findStartOfNextValue(t, json))
    ELSE populateFindEnd(t, MkDataRef(id, t.cursor_index, 0), type, json)

\* Tokenizer::populate_annonymous_token
populate_annonymous_token(data, type) ==
    [name |-> EmptyDataRef, name_type |-> "Ascii", value |-> data, value_type |-> type]

\* The intermediate token made active without the name scanned so far.
SaveNameForgotten(t, tmp_token) ==
    IF t.intermediate_token.active THEN t
    ELSE [t EXCEPT !.intermediate_token.active = TRUE]

\* FindingDelimiter and FindingData, on an error: the name scanned in this
\* call is copied to the intermediate token, unless that is active already.
SaveNameToIntermediate(t, tmp_token) ==
    IF t.intermediate_token.active THEN t
    ELSE [t EXCEPT !.intermediate_token.name = @ \o Resolve(t, tmp_token.name),
                   !.intermediate_token.name_type = tmp_token.name_type,
                   !.intermediate_token.active = TRUE]

\* What FindingDelimiter returns once ',' or ']' ended an anonymous value.
AnonymousFromName(tmp_token) ==
    populate_annonymous_token(tmp_token.name, tmp_token.name_type)

\* case FindingName, after the span was found: a closing container token.
\* The error ExpectedDataToken is the superfluous comma's.
CloseContainer(t, data, type, next_token) ==
    IF t.expecting_prop_or_annonymous_data /\ ~t.allow_superfluous_comma
    THEN [tk |-> t, error |-> "ExpectedDataToken", token |-> next_token]
    ELSE [tk |-> [t EXCEPT !.token_state = "FindingTokenEnd"],
          error |-> "NoError",
          token |-> populate_annonymous_token(data, type)]

\* What FindingDelimiter does to the state once a delimiter was found.
AfterDelimiter(t, found) ==
    [resetForNewValue([t EXCEPT !.token_state = found.token_state,
                                !.cursor_index = @ + found.chars_ahead])
        EXCEPT !.expecting_prop_or_annonymous_data = FALSE]


RECURSIVE populateNextTokenLoop(_, _, _, _, _)

\* The name span once its end was found: in the intermediate token when that
\* is active, else in the buffer.  [tk, data, type]
NameFound(t1, r) ==
    IF t1.intermediate_token.active
    THEN [tk |-> [t1 EXCEPT !.intermediate_token.name = @ \o Resolve(t1, r.data)],
          data |-> MkDataRef(INAME, 0,
                             Len(t1.intermediate_token.name) + Len(Resolve(t1, r.data))),
          type |-> t1.intermediate_token.name_type]
    ELSE [tk |-> t1, data |-> r.data, type |-> r.type]

\* case FindingName with the name span found (n is NameFound's record).
NameToken(n, tmp_token, next_token, json, id) ==
    IF n.type \in {"ObjectEnd", "ArrayEnd"}
    THEN CloseContainer(n.tk, n.data, n.type, next_token)
    ELSE IF n.type \in {"ObjectStart", "ArrayStart"}
    THEN [tk |-> [n.tk EXCEPT !.expecting_prop_or_annonymous_data = FALSE,
                              !.token_state = "FindingName"],
          error |-> "NoError",
          token |-> populate_annonymous_token(n.data, n.type)]
    ELSE populateNextTokenLoop(
             resetForNewValue([n.tk EXCEPT !.token_state = "FindingDelimiter"]),
             [tmp_token EXCEPT !.name = n.data,
                               !.name_type = TypeCheckerType(n.type, Resolve(n.tk, n.data))],
             next_token, json, id)

\* case FindingName, r being what populateFromDataRef returned.
caseFindingName(r, tmp_token, next_token, json, id) ==
    LET t1 == r.tk
        it == t1.intermediate_token
        to_null == strnlen(json, r.data.off, Len(json) - t1.current_data_start)
    IN IF r.error = "NeedMoreData"
       THEN IF t1.property_state # "NoStartFound"
            THEN [tk |-> [t1 EXCEPT !.intermediate_token =
                            [it EXCEPT !.active = TRUE,
                                       !.name = @ \o Slice(json, r.data.off, to_null),
                                       !.name_type = IF it.name_type_set THEN @ ELSE r.type,
                                       !.name_type_set = TRUE]],
                  error |-> r.error, token |-> next_token]
            ELSE [tk |-> t1, error |-> r.error, token |-> next_token]
       ELSE IF r.error # "NoError"
       THEN [tk |-> t1, error |-> r.error, token |-> next_token]
       ELSE NameToken(NameFound(t1, r), tmp_token, next_token, json, id)

\* case FindingDelimiter, found being what findDelimiter returned.
caseFindingDelimiter(t, found, tmp_token, next_token, json, id) ==
    IF found.error # "NoError"
    THEN [tk |-> SaveNameToIntermediate(t, tmp_token),
          error |-> found.error, token |-> next_token]
    ELSE IF found.token_state = "FindingName"
    THEN [tk |-> AfterDelimiter(t, found), error |-> "NoError",
          token |-> AnonymousFromName(tmp_token)]
    ELSE IF tmp_token.name_type # "String"
            /\ (~t.allow_ascii_properties \/ tmp_token.name_type # "Ascii")
    THEN [tk |-> AfterDelimiter(t, found), error |-> "IlligalPropertyName",
          token |-> next_token]
    ELSE populateNextTokenLoop(AfterDelimiter(t, found), tmp_token, next_token, json, id)

\* The value span once its end was found: name and value in the
\* intermediate token when that is active, else in the buffer.
\* [tk, name, name_type, data, type]
DataFound(t1, r, tmp_token) ==
    LET it == t1.intermediate_token
    IN IF it.active
       THEN [tk |-> [t1 EXCEPT !.intermediate_token =
                        [it EXCEPT !.data = @ \o Resolve(t1, r.data),
                                   !.data_type = IF it.data_type_set THEN @ ELSE r.type,
                                   !.data_type_set = TRUE]],
             name |-> MkDataRef(INAME, 0, Len(it.name)),
             name_type |-> it.name_type,
             data |-> MkDataRef(IDATA, 0, Len(it.data) + Len(Resolve(t1, r.data))),
             type |-> IF it.data_type_set THEN it.data_type ELSE r.type]
       ELSE [tk |-> t1, name |-> tmp_token.name, name_type |-> tmp_token.name_type,
             data |-> r.data, type |-> r.type]

\* case FindingData with the value span found (d is DataFound's record and
\* value_type what the type checker says of the value).
DataToken(d, value_type, next_token) ==
    IF value_type = "Ascii" /\ ~d.tk.allow_ascii_properties
    THEN [tk |-> d.tk, error |-> "IlligalDataValue", token |-> next_token]
    ELSE [tk |-> [d.tk EXCEPT !.token_state =
                     IF d.type \in {"ObjectStart", "ArrayStart"}
                     THEN "FindingName" ELSE "FindingTokenEnd"],
          error |-> "NoError",
          token |-> [name |-> d.name, name_type |-> d.name_type,
                     value |-> d.data, value_type |-> value_type]]

\* case FindingData on NeedMoreData, t2 being the state with the name saved.
DataSuspended(t2, r, json, next_token) ==
    LET it == t2.intermediate_token
        data_length == strnlen(json, r.data.off, Len(json) - t2.current_data_start)
    IN IF t2.property_state # "NoStartFound"
       THEN [tk |-> [t2 EXCEPT !.intermediate_token =
                        [it EXCEPT !.data = @ \o Slice(json, r.data.off, data_length),
                                   !.data_type = IF it.data_type_set THEN @ ELSE r.type,
                                   !.data_type_set = TRUE]],
             error |-> r.error, token |-> next_token]
       ELSE [tk |-> t2, error |-> r.error, token |-> next_token]

\* The type checker's verdict on the value DataFound found.
DataValueType(d) == TypeCheckerType(d.type, Resolve(d.tk, d.data))

\* case FindingData, r being what populateFromDataRef returned.
caseFindingData(r, tmp_token, next_token, json) ==
    IF r.error = "NeedMoreData"
    THEN DataSuspended(SaveNameToIntermediate(r.tk, tmp_token), r, json, next_token)
    ELSE IF r.error # "NoError"
    THEN [tk |-> r.tk, error |-> r.error, token |-> next_token]
    ELSE DataToken(DataFound(r.tk, r, tmp_token),
                   DataValueType(DataFound(r.tk, r, tmp_token)), next_token)

\* case FindingTokenEnd, found being what findTokenEnd returned.
caseFindingTokenEnd(t, found, tmp_token, next_token, json, id) ==
    LET t1 == IF found.expecting
              THEN [t EXCEPT !.expecting_prop_or_annonymous_data = TRUE] ELSE t
    IN IF found.error # "NoError"
       THEN [tk |-> t1, error |-> found.error, token |-> next_token]
       ELSE populateNextTokenLoop(
                [t1 EXCEPT !.cursor_index = @ + found.chars_ahead,
                           !.token_state = "FindingName"],
                tmp_token, next_token, json, id)

\* The loop of populateNextTokenFromDataRef: while (cursor_index < size).
populateNextTokenLoop(t, tmp_token, next_token, json, id) ==
    IF ~(t.cursor_index < Len(json))
    THEN [tk |-> t, error |-> "NeedMoreData", token |-> next_token]
    ELSE IF t.token_state = "FindingName"
    THEN caseFindingName(populateFromDataRef(t, t.intermediate_token.name_type, json, id),
                         tmp_token, next_token, json, id)
    ELSE IF t.token_state = "FindingDelimiter"
    THEN caseFindingDelimiter(t, findDelimiter(t, json), tmp_token, next_token, json, id)
    ELSE IF t.token_state = "FindingData"
    THEN caseFindingData(populateFromDataRef(t, t.intermediate_token.data_type, json, id),
                         tmp_token, next_token, json)
    ELSE caseFindingTokenEnd(t, findTokenEnd(t, json), tmp_token, next_token, json, id)

\* Tokenizer::populateNextTokenFromDataRef: [tk, error, token]; tmp_token is
\* the function's local Token, fresh in every call.
populateNextTokenFromDataRef(t, next_token, json, id) ==
    populateNextTokenLoop(t, NewToken, next_token, json, id)

\* *(json_data.data + offset) as updateErrorContext reads it.  An offset
\* below 0 stands for the size_t that cursor_index - 1 wraps to at cursor 0:
\* the byte lies in front of the buffer, and reading it is undefined.  If the
\* program survives the loop, that memory held newlines.
ContextByte(json, offset) == IF offset < 0 THEN NL ELSE At(json, offset)

\* a > b for two size_t, one of which may have wrapped below 0.
SizeGreater(a, b) == IF a < 0 THEN ~(b < 0 /\ b <= a) ELSE (b >= 0 /\ a > b)

RECURSIVE ContextBack(_, _, _, _, _, _, _)
\* The loop of updateErrorContext that walks back from cursor_index - 1:
\* [lines, lines_back, character, cursor_back]
ContextBack(t, json, cursor_back, stop_back, lines, lines_back, character) ==
    IF ~SizeGreater(cursor_back, stop_back)
    THEN [lines |-> lines, lines_back |-> lines_back, character |-> character,
          cursor_back |-> cursor_back]
    ELSE IF ContextByte(json, cursor_back) # NL
    THEN ContextBack(t, json, cursor_back - 1, stop_back, lines, lines_back, character)
    ELSE IF lines_back + 1 = t.line_context
    THEN [lines |-> [lines EXCEPT ![1].start = cursor_back + 1],
          lines_back |-> lines_back,
          character |-> IF lines_back + 1 = 1 THEN t.cursor_index - cursor_back
                        ELSE character,
          cursor_back |-> cursor_back]
    ELSE ContextBack(t, json, cursor_back - 1, stop_back,
                     <<[start |-> 0, end |-> cursor_back]>>
                         \o [lines EXCEPT ![1].start = cursor_back + 1],
                     lines_back + 1,
                     IF lines_back + 1 = 1 THEN t.cursor_index - cursor_back
                     ELSE character)

RECURSIVE ContextForward(_, _, _, _, _, _)
\* The loop that walks forward from cursor_index: [lines, cursor_forward]
ContextForward(t, json, cursor_forward, stop_forward, lines, lines_forward) ==
    IF ~(cursor_forward < stop_forward)
    THEN [lines |-> lines, cursor_forward |-> cursor_forward]
    ELSE IF At(json, cursor_forward) # NL
    THEN ContextForward(t, json, cursor_forward + 1, stop_forward, lines, lines_forward)
    ELSE IF lines_forward + 1 = t.line_context
    THEN [lines |-> [lines EXCEPT ![Len(lines)].end = cursor_forward],
          cursor_forward |-> cursor_forward]
    ELSE ContextForward(t, json, cursor_forward + 1, stop_forward,
                        Append([lines EXCEPT ![Len(lines)].end = cursor_forward],
                               [start |-> cursor_forward, end |-> 0]),
                        lines_forward + 1)

\* if (lines.front().start == 0) lines.front().start = cursor_back;
ContextFrontStart(b) ==
    IF b.lines[1].start = 0 THEN [b.lines EXCEPT ![1].start = b.cursor_back] ELSE b.lines

\* if (lines.back().end == 0) lines.back().end = cursor_forward - 1;
ContextBackEnd(f) ==
    IF f.lines[Len(f.lines)].end = 0
    THEN [f.lines EXCEPT ![Len(f.lines)].end = f.cursor_forward - 1] ELSE f.lines

\* Whether std::string(json_data.data + start, end - start) stays in the buffer.
ContextSpanInside(json, span) ==
    span.start >= 0 /\ span.start <= span.end /\ span.end <= Len(json)

\* std::string(json_data.data + start, end - start); of a span that leaves
\* the buffer, the bytes that lie in it.
ContextString(json, span) ==
    IF ContextSpanInside(json, span) THEN Slice(json, span.start, span.end - span.start)
    ELSE <<>>

\* updateErrorContext behind its two loops, b being what the loop back
\* ended with and lines the vector after the loop forward.
ContextFilled(t, error, json, b, lines) ==
    IF Len(lines) > 1
    THEN [t EXCEPT !.error_context =
             [line |-> b.lines_back, character |-> b.character, error |-> error,
              lines |-> [i \in 1..Len(lines) |-> ContextString(json, lines[i])],
              spans |-> lines, size |-> Len(json),
              stray |-> t.cursor_index = 0
                        \/ \E i \in 1..Len(lines) : ~ContextSpanInside(json, lines[i])]]
    ELSE LET left == IF t.cursor_index > t.range_context
                     THEN t.cursor_index - t.range_context ELSE 0
             right == IF t.cursor_index + t.range_context > Len(json) THEN Len(json)
                      ELSE t.cursor_index + t.range_context
         IN [t EXCEPT !.error_context =
                [line |-> 0, character |-> t.cursor_index - left, error |-> error,
                 lines |-> <<Slice(json, left, right - left)>>,
                 spans |-> <<[start |-> left, end |-> right]>>, size |-> Len(json),
                 stray |-> t.cursor_index = 0]]

\* updateErrorContext behind the loop back, b being what it ended with.
ContextForwardFrom(t, error, json, b) ==
    ContextFilled(t, error, json, b,
        ContextBackEnd(ContextForward(
            t, json, t.cursor_index,
            Min(t.cursor_index + t.line_range_context, Len(json)),
            ContextFrontStart(b), 0)))

\* updateErrorContext behind its assert.  At cursor_index 0 with
\* line_context 0 the loop back never ends inside the address space; the
\* record then holds the error kind only.
updateErrorContextAsserted(t, error) ==
    IF t.cursor_index = 0 /\ t.line_context = 0
    THEN [t EXCEPT !.error_context.error = error, !.error_context.stray = TRUE]
    ELSE ContextForwardFrom(
             t, error, Head(t.data_list).bytes,
             ContextBack(t, Head(t.data_list).bytes, t.cursor_index - 1,
                         t.cursor_index - Min(t.cursor_index, t.line_range_context),
                         <<[start |-> 0, end |-> t.cursor_index]>>, 0, 0))

\* Tokenizer::updateErrorContext
updateErrorContext(t, error) ==
    updateErrorContextAsserted(
        Asserted(t, "updateErrorContext",
                 t.cursor_index <= Len(Head(t.data_list).bytes)),
        error)

\* The caller's token transformer: it marks the token it was given by
\* turning its name type into Error.
TokenTransformer(tok) == [tok EXCEPT !.name_type = "Error"]

\* Tokenizer::registerTokenTransformer: the parameter shadows the member, so
\* the assignment token_transformer = token_transformer leaves the member as
\* it was.
registerTokenTransformer(t) ==
    [t EXCEPT !.token_transformer = @, !.registered = @ + 1]


\* The history of the release that follows: the buffer at the front of the
\* queue, the error, and the bytes of the buffer behind the point the scan
\* came to (on NeedMoreData the end of the buffer, or the byte findAsciiEnd
\* stopped at; on another error the cursor).
LogRelease(t, error) ==
    LET size == Len(Head(t.data_list).bytes)
        unscanned == IF error # "NeedMoreData" THEN size - t.cursor_index
                     ELSE IF t.scan_stop >= 0 /\ t.scan_stop < size
                     THEN size - (t.scan_stop + 1)
                     ELSE 0
    IN [t EXCEPT !.release_log = Append(@, [ptr |-> Head(t.data_list).id,
                                            error |-> error,
                                            unscanned |-> unscanned]),
                 !.scan_stop = -1]

\* The loop body releasing the buffer whatever the error, NoError included.
AfterPopulateReleasing(t, error) ==
    LET t1 == IF error \notin {"NoError", "NeedMoreData"}
              THEN updateErrorContext(t, error) ELSE t
        t2 == releaseFirstDataRef(LogRelease(t1, error))
    IN IF error = "NeedMoreData" THEN requestMoreData(t2) ELSE t2

\* nextToken's loop body after populateNextTokenFromDataRef returned error:
\* the error context, the release of the buffer, the request for more.
AfterPopulate(t, error) ==
    LET t1 == IF error \notin {"NoError", "NeedMoreData"}
              THEN updateErrorContext(t, error) ELSE t
        t2 == IF error # "NoError" THEN releaseFirstDataRef(LogRelease(t1, error)) ELSE t1
    IN IF error = "NeedMoreData" THEN requestMoreData(t2) ELSE t2

\* nextToken's loop left after its first pass, whatever the error.
nextTokenLoopOnce(t, next_token, error) ==
    IF ~(error = "NeedMoreData" /\ t.data_list # <<>>)
    THEN [tk |-> t, error |-> error, token |-> next_token]
    ELSE LET r == populateNextTokenFromDataRef(
                      [t EXCEPT !.rounds = @ + 1], next_token,
                      Head(t.data_list).bytes, Head(t.data_list).id)
         IN [tk |-> AfterPopulate(r.tk, r.error), error |-> r.error, token |-> r.token]

RECURSIVE nextTokenLoop(_, _, _)

\* One round of the loop, r being what populateNextTokenFromDataRef returned.
nextTokenRound(r) == nextTokenLoop(AfterPopulate(r.tk, r.error), r.token, r.error)

\* The retry loop of nextToken: while (error == NeedMoreData && data_list.size())
nextTokenLoop(t, next_token, error) ==
    IF ~(error = "NeedMoreData" /\ t.data_list # <<>>)
    THEN [tk |-> t, error |-> error, token |-> next_token]
    ELSE nextTokenRound(populateNextTokenFromDataRef(
             [t EXCEPT !.rounds = @ + 1], next_token,
             Head(t.data_list).bytes, Head(t.data_list).id))

\* nextToken after the loop, r being what the loop ended with.
nextTokenReturn(r) ==
    [tk |-> [r.tk EXCEPT !.continue_after_need_more_data = (r.error = "NeedMoreData")],
     error |-> r.error,
     token |-> IF r.error = "NoError" /\ r.tk.token_transformer
               THEN TokenTransformer(r.token) ELSE r.token]

\* nextToken from error_context.clear() on.
nextTokenCleared(t, next_token) ==
    IF t.data_list = <<>>
    THEN [tk |-> t, error |-> "NeedMoreData", token |-> next_token]
    ELSE nextTokenReturn(nextTokenLoop(
             IF ~t.continue_after_need_more_data THEN resetForNewToken(t) ELSE t,
             next_token, "NeedMoreData"))

\* Tokenizer::nextToken: [tk, error, token]
nextToken(t, next_token) ==
    nextTokenCleared([(IF t.data_list = <<>> THEN requestMoreData(t) ELSE t)
                         EXCEPT !.error_context = NewErrorContext],
                     next_token)

\* A Token as its reader sees it when nextToken returns: types and bytes.
TokenView(t, tok) ==
    [name |-> Resolve(t, tok.name), name_type |-> tok.name_type,
     value |-> Resolve(t, tok.value), value_type |-> tok.value_type]

(***************************************************************************)
(* Serializer.  The record sr holds the fields of class Serializer.        *)
(* m_all_buffers is a std::vector: store holds its storage blocks, the     *)
(* last one being the live one, so that a pointer kept in                  *)
(* m_unused_buffers (an index and the block it points into) dangles once   *)
(* the vector has grown into a new block.  mem is the caller's output      *)
(* memory, one block per id; cb_sizes and cb_fired belong to the caller's  *)
(* request-buffer callback, reuse and ret_string to serializeStruct's.     *)
(* ub records that a dangling pointer has been used, thrown that an        *)
(* exception has left write.                                               *)
(***************************************************************************)
ShiftSize == 4

\* char out_buffer[512] of serializeStruct
OutBufferSize == 512

\* std::string(n, ' ')
RECURSIVE Spaces(_)
Spaces(n) == IF n <= 0 THEN <<>> ELSE <<SPACE>> \o Spaces(n - 1)

\* setDepth with the shift width left out of the indentation.
setDepthUnshifted(o, depth) ==
    [o EXCEPT !.m_depth = depth,
              !.m_prefix = IF o.m_style = "Pretty" THEN Spaces(depth) ELSE <<>>]

\* SerializerOptions::setDepth
setDepth(o, depth) ==
    [o EXCEPT !.m_depth = depth,
              !.m_prefix = IF o.m_style = "Pretty"
                           THEN Spaces(depth * o.m_shift_size) ELSE <<>>]

\* SerializerOptions::setDepth: std::string(depth * m_shift_size, ' ') takes
\* its length as a size_t, and throws std::length_error for a negative one.
setDepthThrows(o, depth) == o.m_style = "Pretty" /\ depth * o.m_shift_size < 0

\* SerializerOptions with the value delimiter of Pretty in either style.
SerializerOptionsSpaced(style) ==
    [m_shift_size |-> ShiftSize,
     m_depth |-> 0,
     m_style |-> style,
     m_convert_ascii_to_string |-> TRUE,
     m_prefix |-> <<>>,
     m_token_delimiter |-> <<COMMA>>,
     m_value_delimiter |-> <<SPACE, COLON, SPACE>>,
     m_postfix |-> IF style = "Pretty" THEN <<NL>> ELSE <<>>]

\* SerializerOptions::SerializerOptions(Style)
SerializerOptions(style) ==
    [m_shift_size |-> ShiftSize,
     m_depth |-> 0,
     m_style |-> style,
     m_convert_ascii_to_string |-> TRUE,
     m_prefix |-> <<>>,
     m_token_delimiter |-> <<COMMA>>,
     m_value_delimiter |-> IF style = "Pretty" THEN <<SPACE, COLON, SPACE>> ELSE <<COLON>>,
     m_postfix |-> IF style = "Pretty" THEN <<NL>> ELSE <<>>]

\* SerializerOptions::setStyle
setStyle(o, style) ==
    setDepth([o EXCEPT !.m_style = style,
                       !.m_postfix = IF style = "Pretty" THEN <<NL>> ELSE <<>>,
                       !.m_value_delimiter =
                           IF style = "Pretty" THEN <<SPACE, COLON, SPACE>> ELSE <<COLON>>],
             o.m_depth)

\* Serializer::Serializer(): no buffer, default options (Pretty).
NewSerializer ==
    [m_request_buffer_callbacks |-> 0,
     m_unused_buffers |-> <<>>,
     store |-> <<<<>>>>,
     capacity |-> 0,
     m_option |-> SerializerOptions("Pretty"),
     m_first |-> TRUE,
     m_token_start |-> TRUE,
     m_token_transformer |-> FALSE,
     mem |-> <<>>,
     cb_sizes |-> <<>>,
     cb_fired |-> 0,
     reuse |-> FALSE,
     ret_string |-> <<>>,
     ub |-> FALSE,
     thrown |-> FALSE]

\* m_all_buffers: the live storage block of the vector.
AllBuffers(s) == s.store[Len(s.store)]

\* Serializer::setOptions
setOptions(s, option) == [s EXCEPT !.m_option = option]

\* Serializer::addRequestBufferCallback
addRequestBufferCallback(s) == [s EXCEPT !.m_request_buffer_callbacks = @ + 1]

\* An output block of the caller, size bytes long.  mem holds the bytes of
\* the block written so far; the bytes behind them are uninitialised.
NewMemory(s, size) == [s EXCEPT !.mem = Append(@, <<>>)]

\* m_all_buffers.push_back: a full vector moves into a new storage block of
\* twice the capacity, and the old block is freed.
PushBack(s, buf) ==
    IF Len(AllBuffers(s)) < s.capacity
    THEN [s EXCEPT !.store[Len(s.store)] = Append(@, buf)]
    ELSE [s EXCEPT !.store = Append(@, Append(AllBuffers(s), buf)),
                   !.capacity = IF @ = 0 THEN 1 ELSE 2 * @]

\* Serializer::appendBuffer(buffer, size); buffer is the id of a block of mem.
appendBuffer(s, buffer, size) ==
    LET s1 == PushBack(s, [buffer |-> buffer, size |-> size, used |-> 0])
    IN [s1 EXCEPT !.m_unused_buffers =
                      Append(@, [idx |-> Len(AllBuffers(s1)), block |-> Len(s1.store)])]

\* The request-buffer callback.  The caller's appends a fresh buffer, of the
\* next capacity of cb_sizes (taken in turn), or nothing if it has none.
\* serializeStruct's moves the whole of out_buffer to ret_string and appends
\* out_buffer again.
RequestBufferCallback(s) ==
    IF s.reuse
    THEN appendBuffer([s EXCEPT !.ret_string =
                           @ \o s.mem[1]
                           \o [i \in 1..(OutBufferSize - Len(s.mem[1])) |-> -1]],
                      1, OutBufferSize)
    ELSE IF s.cb_sizes = <<>> THEN s
    ELSE LET size == s.cb_sizes[(s.cb_fired % Len(s.cb_sizes)) + 1]
             s1 == NewMemory([s EXCEPT !.cb_fired = @ + 1], size)
         IN appendBuffer(s1, Len(s1.mem), size)

RECURSIVE InvokeRequestBuffer(_, _)
InvokeRequestBuffer(s, n) ==
    IF n = 0 THEN s ELSE RequestBufferCallback(InvokeRequestBuffer(s, n - 1))

\* Serializer::askForMoreBuffers
askForMoreBuffers(s) == InvokeRequestBuffer(s, s.m_request_buffer_callbacks)

\* markCurrentSerializerBufferFull that asks for no further buffer.
markFullWithoutAsking(s) == [s EXCEPT !.m_unused_buffers = Tail(@)]

\* Serializer::markCurrentSerializerBufferFull
markCurrentSerializerBufferFull(s) ==
    LET s1 == [s EXCEPT !.m_unused_buffers = Tail(@)]
    IN IF Len(s1.m_unused_buffers) = 0 THEN askForMoreBuffers(s1) ELSE s1

\* SerializerBuffer::free: the difference size - used, returned as a bool.
free(buf) == IF buf.size - buf.used # 0 THEN 1 ELSE 0

\* SerializerBuffer::append: whether used + size > this->size is false.
appendFits(buf, size) == ~(buf.used + size > buf.size)

\* append that copies as many bytes of data as the buffer still has room for.
appendPartial(s, ptr, data) ==
    LET buf == s.store[ptr.block][ptr.idx]
        size == Min(Len(data), buf.size - buf.used)
    IN [s EXCEPT !.mem[buf.buffer] =
                     SubSeq(@, 1, buf.used) \o SubSeq(data, 1, size)
                     \o SubSeq(@, buf.used + size + 1, Len(@)),
                 !.store[ptr.block][ptr.idx].used = @ + size]

\* SerializerBuffer::append through the pointer ptr: all of data is copied
\* behind the used bytes, or nothing is.  A pointer into a freed block
\* dangles: the write goes through the stale SerializerBuffer.
append(s, ptr, data) ==
    LET buf == s.store[ptr.block][ptr.idx]
        size == Len(data)
    IN IF ~appendFits(buf, size) THEN s
       ELSE [s EXCEPT !.mem[buf.buffer] =
                          SubSeq(@, 1, buf.used) \o data
                          \o SubSeq(@, buf.used + size + 1, Len(@)),
                      !.store[ptr.block][ptr.idx].used = @ + size]

RECURSIVE writeLoop(_, _, _)
\* The loop of Serializer::write(const char *, size_t): [sr, written]
writeLoop(s, data, written) ==
    IF ~(Len(s.m_unused_buffers) # 0 /\ written < Len(data))
    THEN [sr |-> s, written |-> written]
    ELSE LET first == Head(s.m_unused_buffers)
             s1 == IF first.block # Len(s.store) THEN [s EXCEPT !.ub = TRUE] ELSE s
             room == free(s1.store[first.block][first.idx])
         IN IF room = 0
            THEN writeLoop(markCurrentSerializerBufferFull(s1), data, written)
            ELSE LET to_write == Min(Len(data), room)
                 IN writeLoop(append(s1, first, SubSeq(data, written + 1, written + to_write)),
                              data, written + to_write)

\* write(const char *, size_t) that reports success whatever was written.
writeBytesUnchecked(s, data) ==
    IF Len(data) = 0 THEN [sr |-> s, ok |-> TRUE]
    ELSE LET s1 == IF Len(s.m_unused_buffers) = 0 THEN askForMoreBuffers(s) ELSE s
         IN [sr |-> writeLoop(s1, data, 0).sr, ok |-> TRUE]


\* A write that succeeded and left the serializer as s.
Ok(s) == [sr |-> s, ok |-> TRUE]

\* return written == size, r being what the loop ended with.
writeReturn(r, size) == [sr |-> r.sr, ok |-> r.written = size]

\* Serializer::write(const char *data, size_t size): [sr, ok]
writeBytes(s, data) ==
    IF Len(data) = 0 THEN Ok(s)
    ELSE writeReturn(
             writeLoop(IF Len(s.m_unused_buffers) = 0 THEN askForMoreBuffers(s) ELSE s,
                       data, 0),
             Len(data))

\* A DataRef handed to the serializer: its bytes, and the byte that follows
\* them in memory (what *data.data reads when the span is empty).
SerRef(bytes, after) == [bytes |-> bytes, after |-> after]

\* *data.data
FirstByte(ref) == IF Len(ref.bytes) > 0 THEN ref.bytes[1] ELSE ref.after


\* writeAsString: the quote in front of and behind a span that does not
\* start with one.  r is what the writes before returned; a failed write
\* ends the function.
writeQuote(r, data) ==
    IF ~r.ok \/ FirstByte(data) = QUOTE THEN r ELSE writeBytes(r.sr, <<QUOTE>>)

\* writeAsString: the span itself.
writeSpan(r, data) == IF ~r.ok THEN r ELSE writeBytes(r.sr, data.bytes)

\* Serializer::writeAsString: [sr, ok]
writeAsString(s, data) == writeQuote(writeSpan(writeQuote(Ok(s), data), data), data)

\* Serializer::write(Token::Type, const DataRef &): [sr, ok]
writeTyped(s, type, data) ==
    IF type = "String" THEN writeAsString(s, data)
    ELSE IF type = "Ascii" /\ s.m_option.m_convert_ascii_to_string
    THEN writeAsString(s, data)
    ELSE writeBytes(s, data.bytes)

IsStartType(type) == type \in {"ObjectStart", "ArrayStart"}

IsEndType(type) == type \in {"ObjectEnd", "ArrayEnd"}

\* A delimiter in front of every token that is not a closer.
NeedsDelimiterAlways(s, tok) == ~IsEndType(tok.value_type)

\* Whether write(Token) puts the token delimiter in front of the token.
NeedsDelimiter(s, tok) == ~s.m_token_start /\ ~IsEndType(tok.value_type)

\* The caller's serializer token transformer: it renames the token to "k".
SerTokenTransformer(tok) ==
    IF Len(tok.name.bytes) = 0 THEN tok ELSE [tok EXCEPT !.name = SerRef(<<107>>, NUL)]


\* The steps of Serializer::write(const Token &), in the order of the code.
\* Each takes what the steps before returned, r = [sr, ok], and a failed
\* write ends the function: return false.

\* The token delimiter.
writeDelimiter(s, tok) ==
    IF NeedsDelimiter(s, tok) THEN writeBytes(s, s.m_option.m_token_delimiter) ELSE Ok(s)

\* m_first, or the postfix.
writePostfix(r) ==
    IF ~r.ok THEN r
    ELSE IF r.sr.m_first THEN Ok([r.sr EXCEPT !.m_first = FALSE])
    ELSE writeBytes(r.sr, r.sr.m_option.m_postfix)

\* setDepth(depth() - 1) for a closing token; std::string throws on a
\* negative length.
leaveDepth(r, tok) ==
    IF ~r.ok \/ ~IsEndType(tok.value_type) THEN r
    ELSE IF setDepthThrows(r.sr.m_option, r.sr.m_option.m_depth - 1)
    THEN [sr |-> [r.sr EXCEPT !.m_option.m_depth = @ - 1, !.thrown = TRUE], ok |-> FALSE]
    ELSE Ok([r.sr EXCEPT !.m_option = setDepth(@, @.m_depth - 1)])

\* The prefix.
writePrefix(r) == IF ~r.ok THEN r ELSE writeBytes(r.sr, r.sr.m_option.m_prefix)

\* The name of a token that has one.
writeName(r, tok) ==
    IF ~r.ok \/ Len(tok.name.bytes) = 0 THEN r
    ELSE writeTyped(r.sr, tok.name_type, tok.name)

\* The value delimiter behind the name.
writeValueDelimiter(r, tok) ==
    IF ~r.ok \/ Len(tok.name.bytes) = 0 THEN r
    ELSE writeBytes(r.sr, r.sr.m_option.m_value_delimiter)

\* The value.
writeValue(r, tok) == IF ~r.ok THEN r ELSE writeTyped(r.sr, tok.value_type, tok.value)

\* m_token_start, and setDepth(depth() + 1) for an opening token.
enterDepth(r, tok) ==
    IF ~r.ok THEN r
    ELSE Ok([r.sr EXCEPT !.m_token_start = IsStartType(tok.value_type),
                         !.m_option = IF IsStartType(tok.value_type)
                                      THEN setDepth(@, @.m_depth + 1) ELSE @])

\* write(const Token &) for the transformed token.
writeTransformed(s, tok) ==
    enterDepth(
        writeValue(
            writeValueDelimiter(
                writeName(
                    writePrefix(leaveDepth(writePostfix(writeDelimiter(s, tok)), tok)),
                    tok),
                tok),
            tok),
        tok)

\* Serializer::write(const Token &): [sr, ok]
writeToken(s, in_token) ==
    IF s.m_token_transformer THEN writeTransformed(s, SerTokenTransformer(in_token))
    ELSE writeTransformed(s, in_token)

\* Serializer::registerTokenTransformer
registerSerTokenTransformer(s) == [s EXCEPT !.m_token_transformer = TRUE]

\* Serializer::clearBuffers
clearBuffers(s) ==
    [s EXCEPT !.store[Len(s.store)] = <<>>, !.m_unused_buffers = <<>>]

\* The used bytes of the buffers of buffers(), in the order they were appended.
RECURSIVE UsedBytes(_, _)
UsedBytes(s, bufs) ==
    IF bufs = <<>> THEN <<>>
    ELSE SubSeq(s.mem[Head(bufs).buffer], 1, Head(bufs).used) \o UsedBytes(s, Tail(bufs))

Output(s) == UsedBytes(s, AllBuffers(s))

(***************************************************************************)
(* TokenParser.  A C++ type is a descriptor: kind, and elem for a wrapper  *)
(* or members (name and type, in tuple order) for a JT_STRUCT.  A value    *)
(* of a string is its bytes, of a vector and of a struct the sequence of   *)
(* element or member values, of OptionalChecked [assigned, data], of       *)
(* unique_ptr [present, data].                                             *)
(***************************************************************************)
TString == [kind |-> "string"]

TBool == [kind |-> "bool"]

TInt == [kind |-> "int"]

TVector(elem) == [kind |-> "vector", elem |-> elem]

TOptional(elem) == [kind |-> "optional", elem |-> elem]

TOptionalChecked(elem) == [kind |-> "checked", elem |-> elem]

TUniquePtr(elem) == [kind |-> "unique", elem |-> elem]

TStruct(members) == [kind |-> "struct", members |-> members]

\* JT_MEMBER(name)
Member(name, type) == [name |-> name, type |-> type]

\* JT_SUPER_CLASSES(...): the members of the super classes, tuple_cat in the
\* order the classes are given.
RECURSIVE JT_SUPER_CLASSES(_)
JT_SUPER_CLASSES(supers) ==
    IF supers = <<>> THEN <<>>
    ELSE Head(supers).members \o JT_SUPER_CLASSES(Tail(supers))

\* JT_STRUCT_WITH_SUPER(super_list, ...): tuple_cat(make_tuple(...), super_list)
JT_STRUCT_WITH_SUPER(super_list, members) == TStruct(members \o super_list)

RECURSIVE ValueInit(_)
\* T(): the value-initialised object.
ValueInit(type) ==
    CASE type.kind = "string" -> <<>>
      [] type.kind = "bool" -> FALSE
      [] type.kind = "int" -> 0
      [] type.kind = "vector" -> <<>>
      [] type.kind = "optional" -> ValueInit(type.elem)
      [] type.kind = "checked" -> [assigned |-> FALSE, data |-> ValueInit(type.elem)]
      [] type.kind = "unique" -> [present |-> FALSE, data |-> ValueInit(type.elem)]
      [] type.kind = "struct" ->
            [i \in 1..Len(type.members) |-> ValueInit(type.members[i].type)]

\* HasJTOptionalValue without the specialisation for std::unique_ptr.
HasJTOptionalTypedef(type) == type.kind \in {"optional", "checked"}

\* HasJTOptionalValue<T>::value
HasJTOptionalValue(type) == type.kind \in {"optional", "checked", "unique"}

IntBufSize == 10

RECURSIVE NegDigits(_)
\* The decimal digits of -n, for n <= 0 (no digit for 0).
NegDigits(n) ==
    IF n = 0 THEN <<>>
    ELSE LET digit == (10 - (n % 10)) % 10
         IN Append(NegDigits((n + digit) \div 10), CH_0 + digit)

\* What "%d" prints.
IntText(d) ==
    IF d = 0 THEN <<CH_0>>
    ELSE IF d < 0 THEN <<MINUS>> \o NegDigits(d)
    ELSE NegDigits(-d)

\* snprintf(buf, cap, ...) of text, seen through a span of Len(text) bytes
\* at buf: snprintf returns the length the text would have, and writes at
\* most cap - 1 of its bytes and a terminator.  The bytes of the span behind
\* the end of buf are whatever lies on the stack there.
SnprintfSpan(text, cap, stack_byte) ==
    IF Len(text) < cap THEN text
    ELSE SubSeq(text, 1, cap - 1) \o <<NUL>>
         \o [i \in 1..(Len(text) - cap) |-> stack_byte]

IsSpaceCode(c) == c = SPACE \/ (c >= TAB /\ c <= 13)

IntMax == 2147483647

RECURSIVE strtolDigits(_, _, _)
\* The digits of strtol from index i on: [value, end]; the value stops
\* growing at IntMax.
strtolDigits(bytes, i, value) ==
    IF i > Len(bytes) \/ ~IsDigitCode(bytes[i]) THEN [value |-> value, end |-> i]
    ELSE LET digit == bytes[i] - CH_0
         IN strtolDigits(bytes, i + 1,
                         IF value > (IntMax - digit) \div 10 THEN IntMax
                         ELSE value * 10 + digit)

RECURSIVE SkipSpace(_, _)
SkipSpace(bytes, i) ==
    IF i <= Len(bytes) /\ IsSpaceCode(bytes[i]) THEN SkipSpace(bytes, i + 1) ELSE i

\* strtol(data, &pointer, 10): [value, parsed]; parsed is pointer != data.
strtol(bytes) ==
    LET start == SkipSpace(bytes, 1)
        signed == start <= Len(bytes) /\ bytes[start] \in {MINUS, PLUS}
        first == IF signed THEN start + 1 ELSE start
        r == strtolDigits(bytes, first, 0)
    IN IF r.end = first THEN [value |-> 0, parsed |-> FALSE]
       ELSE [value |-> IF signed /\ bytes[start] = MINUS THEN 0 - r.value ELSE r.value,
             parsed |-> TRUE]

\* memcmp(literal, data, sizeof(literal) - 1) == 0
StartsWith(bytes, literal) ==
    Len(bytes) >= Len(literal) /\ SubSeq(bytes, 1, Len(literal)) = literal

\* Token token;
NewSerToken ==
    [name_type |-> "String", name |-> SerRef(<<>>, NUL),
     value_type |-> "String", value |-> SerRef(<<>>, NUL)]


\* The two references serializeToken works on: w = [sr, token].

\* token.value_type = ...; token.value = ...; serializer.write(token): the
\* result of write is dropped.
WriteValue(w, value_type, value) ==
    LET t1 == [w.token EXCEPT !.value_type = value_type, !.value = value]
    IN [sr |-> writeToken(w.sr, t1).sr, token |-> t1]

\* token.name = DataRef::asDataRef("")
ClearName(w) == [w EXCEPT !.token.name = SerRef(<<>>, NUL)]

\* token.name.size = 0; token.name.data = ""; token.name_type = Token::String
ClearNameAndType(w) ==
    [w EXCEPT !.token.name = SerRef(<<>>, NUL), !.token.name_type = "String"]

\* serializeMember's token.name and token.name_type
MemberName(w, member) ==
    [w EXCEPT !.token.name = SerRef(member.name, NUL), !.token.name_type = "Ascii"]

RECURSIVE serializeToken(_, _, _, _)
RECURSIVE serializeElements(_, _, _, _, _)
RECURSIVE serializeMembers(_, _, _, _, _)

\* TokenParser<T>::serializeToken(from_type, token, serializer): [sr, token].
\* stack_byte is the byte that lies behind the int parser's buf.
serializeToken(type, from_type, w, stack_byte) ==
    CASE type.kind = "string" -> WriteValue(w, "Ascii", SerRef(from_type, NUL))
      [] type.kind = "int" ->
            WriteValue(w, "Number",
                       SerRef(SnprintfSpan(IntText(from_type), IntBufSize, stack_byte),
                              stack_byte))
      [] type.kind = "bool" ->
            WriteValue(w, "Bool", SerRef(IF from_type THEN true_text ELSE false_text, NUL))
      [] type.kind = "optional" -> serializeToken(type.elem, from_type, w, stack_byte)
      [] type.kind = "checked" ->
            IF from_type.assigned
            THEN serializeToken(type.elem, from_type.data, w, stack_byte)
            ELSE w
      [] type.kind = "unique" ->
            IF from_type.present
            THEN serializeToken(type.elem, from_type.data, w, stack_byte)
            ELSE WriteValue(w, "Null", SerRef(null_text, NUL))
      [] type.kind = "vector" ->
            WriteValue(
                ClearName(serializeElements(
                    type.elem, from_type, 1,
                    ClearName(WriteValue(w, "ArrayStart", SerRef(<<LBRACKET>>, NUL))),
                    stack_byte)),
                "ArrayEnd", SerRef(<<RBRACKET>>, NUL))
      [] type.kind = "struct" ->
            WriteValue(
                ClearNameAndType(serializeMembers(
                    type.members, from_type, 1,
                    WriteValue(w, "ObjectStart", SerRef(<<LBRACE>>, NUL)),
                    stack_byte)),
                "ObjectEnd", SerRef(<<RBRACE>>, NUL))

\* for (auto index : vec) serializeToken(index, token, serializer)
serializeElements(elem, vec, i, w, stack_byte) ==
    IF i > Len(vec) THEN w
    ELSE serializeElements(elem, vec, i + 1,
                           serializeToken(elem, vec[i], w, stack_byte), stack_byte)

\* serializeMembers walking the tuple from its last element to its first.
RECURSIVE serializeMembersFromLast(_, _, _, _, _)
serializeMembersFromLast(members, from_type, i, w, stack_byte) ==
    IF i > Len(members) THEN w
    ELSE serializeMembersFromLast(
             members, from_type, i + 1,
             serializeToken(members[Len(members) + 1 - i].type,
                            from_type[Len(members) + 1 - i],
                            MemberName(w, members[Len(members) + 1 - i]), stack_byte),
             stack_byte)

\* MemberChecker::serializeMembers with serializeMember: the members in the
\* order of the tuple, each under its name, of name type Ascii.
serializeMembers(members, from_type, i, w, stack_byte) ==
    IF i > Len(members) THEN w
    ELSE serializeMembers(members, from_type, i + 1,
                          serializeToken(members[i].type, from_type[i],
                                         MemberName(w, members[i]), stack_byte),
                          stack_byte)

\* The serializer serializeStruct sets up: out_buffer, and the callback that
\* moves it to ret_string.
StructSerializer ==
    [addRequestBufferCallback(
         appendBuffer(NewMemory(NewSerializer, OutBufferSize), 1, OutBufferSize))
        EXCEPT !.reuse = TRUE]

\* ret_string += std::string(out_buffer, serializer.buffers().back().used)
StructText(s) ==
    s.ret_string \o SubSeq(s.mem[1], 1, AllBuffers(s)[Len(AllBuffers(s))].used)

\* serializeStruct(from_type): the text.
serializeStruct(type, from_type, stack_byte) ==
    StructText(serializeToken(type, from_type,
                              [sr |-> StructSerializer, token |-> NewSerToken],
                              stack_byte).sr)

\* ParseContext, with the text the need-more-data callback holds.
NewParseContext ==
    [tokenizer |-> NewTokenizer,
     token |-> NewToken,
     error |-> "NoError",
     missing_members |-> <<>>,
     unassigned_required_members |-> <<>>,
     allow_missing_members |-> TRUE,
     allow_unnasigned_required__members |-> TRUE,
     json_data |-> <<>>]

\* makeParseContextForData(json_data, size): a one-shot callback adds the text.
makeParseContextForData(json_data) ==
    [NewParseContext EXCEPT
        !.tokenizer = [registerNeedMoreDataCallback(NewTokenizer, TRUE)
                          EXCEPT !.feed = <<json_data>>],
        !.json_data = json_data]

\* The memory a DataRef of the context's token points into: the text, which
\* the caller keeps, or the intermediate token's strings.
Region(c, ref) ==
    IF ref.buf = INAME THEN c.tokenizer.intermediate_token.name
    ELSE IF ref.buf = IDATA THEN c.tokenizer.intermediate_token.data
    ELSE IF ref.buf = STATIC THEN <<>>
    ELSE c.json_data

\* std::string(ref.data, ref.size)
SpanBytes(c, ref) == Slice(Region(c, ref), ref.off, ref.size)

\* The bytes from ref.data on, up to the terminator of the string it lies in.
BytesFrom(c, ref) ==
    SubSeq(Region(c, ref), ref.off + 1, Len(Region(c, ref))) \o <<NUL>>


\* The context after nextToken returned r.
Advanced(c, r) == [ctx |-> [c EXCEPT !.tokenizer = r.tk, !.token = r.token], error |-> r.error]

\* context.tokenizer.nextToken(context.token): [ctx, error]
ContextNextToken(c) == Advanced(c, nextToken(c.tokenizer, c.token))

\* unpackMember's test: memcmp(memberInfo.name, token.name.data, MI_S) == 0
MemberMatches(member, c) == StartsWith(BytesFrom(c, c.token.name), member.name)

RECURSIVE UnassignedMembers(_, _, _)
\* MemberChecker::verifyMembers: the names pushed to missing_members, from
\* the last member of the tuple down to the first.
UnassignedMembers(members, assigned_members, index) ==
    IF index = 0 THEN <<>>
    ELSE (IF assigned_members[index] \/ HasJTOptionalValue(members[index].type)
          THEN <<>> ELSE <<members[index].name>>)
         \o UnassignedMembers(members, assigned_members, index - 1)

\* A check of the members whose error is the one of an unknown property.
verifyMembersMissing(members, assigned_members) ==
    IF UnassignedMembers(members, assigned_members, Len(members)) = <<>>
    THEN "NoError" ELSE "MissingPropertyMember"

\* verifyMember's error for a member that was not assigned and has no
\* optional type.
verifyMembers(members, assigned_members) ==
    IF UnassignedMembers(members, assigned_members, Len(members)) = <<>>
    THEN "NoError" ELSE "UnassignedRequiredMember"

RECURSIVE unpackToken(_, _, _)
RECURSIVE unpackElements(_, _, _, _)
RECURSIVE unpackObject(_, _, _, _)
RECURSIVE unpackMembers(_, _, _, _, _)

\* The int parser's return, r being what strtol returned.
IntParsed(c, r) ==
    [ctx |-> c, error |-> IF r.parsed THEN "NoError" ELSE "FailedToParseInt",
     value |-> r.value]

\* The OptionalChecked parser's return: to_type.assigned = true.
AssignedValue(r) ==
    [ctx |-> r.ctx, error |-> r.error, value |-> [assigned |-> TRUE, data |-> r.value]]

\* A unique_ptr parser that keeps the new T only if its decode succeeds.
PresentIfDecoded(r) ==
    [ctx |-> r.ctx, error |-> r.error,
     value |-> [present |-> r.error = "NoError", data |-> r.value]]

\* The unique_ptr parser's return for a value that is not null.
PresentValue(r) ==
    [ctx |-> r.ctx, error |-> r.error, value |-> [present |-> TRUE, data |-> r.value]]

\* The vector loop after the nextToken behind an element, n being its return.
ElementNext(elem, vec, n) ==
    IF n.error # "NoError"
    THEN [ctx |-> n.ctx, error |-> n.error, value |-> vec]
    ELSE unpackElements(elem, vec, n.ctx, n.error)

\* The vector loop after to_type.push_back(T()) and the element's
\* unpackToken, r being its return.
ElementUnpacked(elem, to_type, r) ==
    IF r.error # "NoError"
    THEN [ctx |-> r.ctx, error |-> r.error, value |-> Append(to_type, r.value)]
    ELSE ElementNext(elem, Append(to_type, r.value), ContextNextToken(r.ctx))

\* The vector parser after its first nextToken, n being its return.
VectorStarted(elem, to_type, n) == unpackElements(elem, to_type, n.ctx, n.error)

\* The struct loop after the nextToken behind a member, n being its return
\* and r that of unpackMembers.
MemberNext(members, r, n) ==
    IF n.error # "NoError"
    THEN [ctx |-> n.ctx, error |-> n.error, value |-> r.value]
    ELSE unpackObject(members, r.value, n.ctx, r.assigned_members)

\* The struct loop after unpackMembers, r being its return and token_name
\* the name of the token it was called for.
MemberUnpacked(members, token_name, r) ==
    LET c1 == IF r.error = "MissingPropertyMember"
              THEN [r.ctx EXCEPT !.missing_members = Append(@, token_name)]
              ELSE r.ctx
    IN IF r.error = "MissingPropertyMember" /\ ~c1.allow_missing_members
       THEN [ctx |-> c1, error |-> r.error, value |-> r.value]
       ELSE IF r.error \notin {"NoError", "MissingPropertyMember"}
       THEN [ctx |-> c1, error |-> r.error, value |-> r.value]
       ELSE MemberNext(members, r, ContextNextToken(c1))

\* The struct parser after its first nextToken, n being its return.
StructStarted(members, to_type, n) ==
    IF n.error # "NoError"
    THEN [ctx |-> n.ctx, error |-> n.error, value |-> to_type]
    ELSE unpackObject(members, to_type, n.ctx, [i \in 1..Len(members) |-> FALSE])

\* The struct parser behind its loop: verifyMembers, and the error that
\* allow_unnasigned_required__members lets pass.
StructEnded(members, to_type, c, assigned_members) ==
    [ctx |-> [c EXCEPT !.unassigned_required_members =
                           @ \o UnassignedMembers(members, assigned_members, Len(members))],
     error |-> IF verifyMembers(members, assigned_members) = "UnassignedRequiredMember"
                  /\ c.allow_unnasigned_required__members
               THEN "NoError" ELSE verifyMembers(members, assigned_members),
     value |-> to_type]

\* unpackMember for a member whose name matched, m being what the member's
\* unpackToken returned.
MemberTried(members, to_type, assigned_members, index, m) ==
    IF m.error # "MissingPropertyMember"
    THEN [ctx |-> m.ctx, error |-> m.error,
          value |-> [to_type EXCEPT ![index] = m.value],
          assigned_members |-> [assigned_members EXCEPT ![index] = TRUE]]
    ELSE unpackMembers(members, [to_type EXCEPT ![index] = m.value], m.ctx,
                       [assigned_members EXCEPT ![index] = TRUE], index - 1)

\* TokenParser<T>::unpackToken(to_type, context): [ctx, error, value]
unpackToken(type, to_type, c) ==
    CASE type.kind = "string" ->
            [ctx |-> c, error |-> "NoError", value |-> SpanBytes(c, c.token.value)]
      [] type.kind = "int" -> IntParsed(c, strtol(BytesFrom(c, c.token.value)))
      [] type.kind = "bool" ->
            IF StartsWith(BytesFrom(c, c.token.value), true_text)
            THEN [ctx |-> c, error |-> "NoError", value |-> TRUE]
            ELSE IF StartsWith(BytesFrom(c, c.token.value), false_text)
            THEN [ctx |-> c, error |-> "NoError", value |-> FALSE]
            ELSE [ctx |-> c, error |-> "FailedToParseBoolen", value |-> to_type]
      [] type.kind = "optional" -> unpackToken(type.elem, to_type, c)
      [] type.kind = "checked" -> AssignedValue(unpackToken(type.elem, to_type.data, c))
      [] type.kind = "unique" ->
            IF c.token.value_type # "Null"
            THEN PresentValue(unpackToken(type.elem, ValueInit(type.elem), c))
            ELSE [ctx |-> c, error |-> "NoError",
                  value |-> [present |-> FALSE, data |-> ValueInit(type.elem)]]
      [] type.kind = "vector" ->
            IF c.token.value_type # "ArrayStart"
            THEN [ctx |-> c, error |-> "ExpectedArrayStart", value |-> to_type]
            ELSE VectorStarted(type.elem, to_type, ContextNextToken(c))
      [] type.kind = "struct" ->
            IF c.token.value_type # "ObjectStart"
            THEN [ctx |-> c, error |-> "ExpectedObjectStart", value |-> to_type]
            ELSE StructStarted(type.members, to_type, ContextNextToken(c))

\* The loop of the vector parser: while (token.value_type != ArrayEnd)
unpackElements(elem, to_type, c, error) ==
    IF c.token.value_type = "ArrayEnd"
    THEN [ctx |-> c, error |-> error, value |-> to_type]
    ELSE ElementUnpacked(elem, to_type, unpackToken(elem, ValueInit(elem), c))

\* The loop of the struct parser, while (token.value_type != ObjectEnd), and
\* the check of the members after it.
unpackObject(members, to_type, c, assigned_members) ==
    IF c.token.value_type = "ObjectEnd"
    THEN StructEnded(members, to_type, c, assigned_members)
    ELSE MemberUnpacked(members, SpanBytes(c, c.token.name),
                        unpackMembers(members, to_type, c, assigned_members, Len(members)))

\* unpackMembers passing over the members that were assigned before.
unpackMembersOnce(members, to_type, c, assigned_members, index) ==
    IF index = 0
    THEN [ctx |-> c, error |-> "MissingPropertyMember", value |-> to_type,
          assigned_members |-> assigned_members]
    ELSE IF assigned_members[index] \/ ~MemberMatches(members[index], c)
    THEN unpackMembers(members, to_type, c, assigned_members, index - 1)
    ELSE MemberTried(members, to_type, assigned_members, index,
                     unpackToken(members[index].type, to_type[index], c))

\* MemberChecker::unpackMembers with unpackMember: the members are tried from
\* the last of the tuple down to the first, until one returns another error
\* than MissingPropertyMember: [ctx, error, value, assigned_members]
unpackMembers(members, to_type, c, assigned_members, index) ==
    IF index = 0
    THEN [ctx |-> c, error |-> "MissingPropertyMember", value |-> to_type,
          assigned_members |-> assigned_members]
    ELSE IF ~MemberMatches(members[index], c)
    THEN unpackMembers(members, to_type, c, assigned_members, index - 1)
    ELSE MemberTried(members, to_type, assigned_members, index,
                     unpackToken(members[index].type, to_type[index], c))

\* parseData behind unpackToken: context.error = error.
Unpacked(u) == [ctx |-> [u.ctx EXCEPT !.error = u.error], value |-> u.value]

\* parseData behind its nextToken, n being its return.
ParseStarted(type, to_type, n) ==
    IF n.error # "NoError"
    THEN [ctx |-> [n.ctx EXCEPT !.error = n.error], value |-> to_type]
    ELSE Unpacked(unpackToken(type, to_type, n.ctx))

\* parseData(to_type, context): [ctx, value]; the error is in ctx.error.
parseData(type, to_type, context) == ParseStarted(type, to_type, ContextNextToken(context))

(***************************************************************************)
(* The tokenizer's caller.  chunks is the JSON text, cut into the buffers   *)
(* that the caller adds by hand (rest) or hands over from a need-more-data *)
(* callback (tk.feed).  out records what every nextToken call returned.    *)
(***************************************************************************)
MaxChunks == 3
MaxLongChunks == 2
MaxCalls == 14
ShortLen == 10

\* {"a":1,"b":[true,false,null]}
Doc_Nested == <<123, 34, 97, 34, 58, 49, 44, 34, 98, 34, 58, 91, 116, 114, 117, 101, 44, 102, 97, 108, 115, 101, 44, 110, 117, 108, 108, 93, 125>>
\* {"x":"hi"}
Doc_Hi == <<123, 34, 120, 34, 58, 34, 104, 105, 34, 125>>
\* [1,2,]
Doc_Trailing == <<91, 49, 44, 50, 44, 93>>
\* {"a":1,}
Doc_ObjTrailing == <<123, 34, 97, 34, 58, 49, 44, 125>>
\* ["a","b"]
Doc_Strings == <<91, 34, 97, 34, 44, 34, 98, 34, 93>>
\* {"a":12}
Doc_Object == <<123, 34, 97, 34, 58, 49, 50, 125>>
\* [""]
Doc_Empty == <<91, 34, 34, 93>>
\* ["a\"b"]
Doc_Escape == <<91, 34, 97, 92, 34, 98, 34, 93>>
\* [abc,true]
Doc_Bare == <<91, 97, 98, 99, 44, 116, 114, 117, 101, 93>>
\* {a:null}
Doc_BareName == <<123, 97, 58, 110, 117, 108, 108, 125>>
\* {"a":no}
Doc_BareValue == <<123, 34, 97, 34, 58, 110, 111, 125>>
\* [1\n2]
Doc_Newline == <<91, 49, 10, 50, 93>>
\* {"a" 1}
Doc_NoColon == <<123, 34, 97, 34, 32, 49, 125>>
\* [tr\0ue, 1]
Doc_Nul == <<91, 116, 114, 0, 117, 101, 44, 32, 49, 93>>
\* [-1.5e3 ]
Doc_Number == <<91, 45, 49, 46, 53, 101, 51, 32, 93>>
\* {a :1}
Doc_BareNameSpace == <<123, 97, 32, 58, 49, 125>>
\* ["\"x"]
Doc_EscapeFirst == <<91, 34, 92, 34, 120, 34, 93>>
\* ["a"\t\n\0 ,1 ]
Doc_Skips == <<91, 34, 97, 34, 9, 10, 0, 32, 44, 49, 32, 93>>
\* [1}
Doc_BraceAfter == <<91, 49, 125>>
\* {"a":1\n"b":2}
Doc_ObjNewline == <<123, 34, 97, 34, 58, 49, 10, 34, 98, 34, 58, 50, 125>>
\* {"a":1 x}
Doc_Junk == <<123, 34, 97, 34, 58, 49, 32, 120, 125>>
\* [null,true,false]
Doc_Literals == <<91, 110, 117, 108, 108, 44, 116, 114, 117, 101, 44, 102, 97, 108, 115, 101, 93>>
\* ["true",nul,nulls,truE]
Doc_NearLiterals == <<91, 34, 116, 114, 117, 101, 34, 44, 110, 117, 108, 44, 110, 117, 108, 108, 115, 44, 116, 114, 117, 69, 93>>
\* {"a":true}
Doc_TrueValue == <<123, 34, 97, 34, 58, 116, 114, 117, 101, 125>>
Docs == {Doc_Literals, Doc_NearLiterals, Doc_TrueValue, Doc_ObjNewline, Doc_Junk, Doc_Skips, Doc_BraceAfter, Doc_BareNameSpace, Doc_EscapeFirst, Doc_Nested, Doc_Hi, Doc_Trailing, Doc_ObjTrailing, Doc_Strings, Doc_Object, Doc_Empty, Doc_Escape, Doc_Bare, Doc_BareName, Doc_BareValue, Doc_Newline, Doc_NoColon, Doc_Nul, Doc_Number}

RECURSIVE Partitions(_, _)
\* The ways to cut bytes into at most n non-empty buffers, in order.
Partitions(bytes, n) ==
    IF n <= 1 \/ Len(bytes) <= 1 THEN {<<bytes>>}
    ELSE {<<bytes>>} \cup
         UNION {{<<SubSeq(bytes, 1, k)>> \o p :
                    p \in Partitions(SubSeq(bytes, k + 1, Len(bytes)), n - 1)} :
                k \in 1..(Len(bytes) - 1)}

\* A text of more than ShortLen bytes is cut into fewer buffers.
Chunkings(d) ==
    Partitions(d, IF Len(d) <= ShortLen THEN MaxChunks ELSE MaxLongChunks)

Policies == [ascii : BOOLEAN, new_lines : BOOLEAN, comma : BOOLEAN]

\* allowAsciiType, allowNewLineAsTokenDelimiter, allowSuperfluousComma
Configure(t, policy) ==
    [t EXCEPT !.allow_ascii_properties = policy.ascii,
              !.allow_new_lines = policy.new_lines,
              !.allow_superfluous_comma = policy.comma]

Modes == {"manual", "persistent", "oneshot"}

\* A configured tokenizer with one release callback; in mode manual the
\* caller adds the buffers itself, in mode persistent a persistent callback
\* hands them over one by one, in mode oneshot a one-shot callback hands over
\* the whole text (makeParseContextForData).
TokenizerFor(policy, cut, m) ==
    LET t == registerRelaseCallback(Configure(NewTokenizer, policy))
    IN IF m = "manual" THEN t
       ELSE [registerNeedMoreDataCallback(t, m = "oneshot") EXCEPT !.feed = cut]

TokInit ==
    \E d \in Docs, policy \in Policies, m \in Modes :
        \E cut \in IF m = "oneshot" THEN {<<d>>} ELSE Chunkings(d) :
            /\ chunks = cut
            /\ tk = TokenizerFor(policy, cut, m)
            /\ rest = IF m = "manual" THEN cut ELSE <<>>
            /\ token = NewToken
            /\ ret = "none"
            /\ out = <<>>

\* The tokenizer asked for data and has been given none since.
Starved ==
    /\ tk.feed = <<>>
    /\ tk.data_list = <<>>
    /\ ret = "NeedMoreData"

\* The input is used up and the tokenizer said so.
Exhausted == rest = <<>> /\ Starved

\* The caller adds its next buffer.
AddData ==
    /\ rest # <<>>
    /\ tk' = addData(tk, Head(rest))
    /\ rest' = Tail(rest)
    /\ UNCHANGED <<token, ret, out, chunks, serVars, codecVars>>


\* The caller registers its token transformer.
RegisterTokenTransformer ==
    /\ tk.registered = 0
    /\ tk' = registerTokenTransformer(tk)
    /\ UNCHANGED <<token, ret, out, rest, chunks, serVars, codecVars>>

\* What the caller sees of a return of nextToken: the error and, on NoError,
\* the token.
Seen(r) ==
    [error |-> r.error,
     token |-> IF r.error = "NoError" THEN TokenView(r.tk, r.token)
               ELSE TokenView(r.tk, NewToken)]

\* The caller calls nextToken.
NextToken ==
    /\ Len(out) < MaxCalls
    /\ ~Starved
    /\ \E r \in {nextToken(tk, token)} :
          /\ tk' = r.tk
          /\ token' = r.token
          /\ ret' = r.error
          /\ out' = Append(out, Seen(r))
    /\ UNCHANGED <<rest, chunks, serVars, codecVars>>

RECURSIVE Concat(_)
Concat(seqs) == IF seqs = <<>> THEN <<>> ELSE Head(seqs) \o Concat(Tail(seqs))

\* The whole text the caller is feeding.
Doc == Concat(chunks)

PolicyOf(t) == [ascii |-> t.allow_ascii_properties,
                new_lines |-> t.allow_new_lines,
                comma |-> t.allow_superfluous_comma]

DefaultPolicy == [ascii |-> FALSE, new_lines |-> FALSE, comma |-> FALSE]

IsTerminal(error) == error \notin {"NoError", "NeedMoreData", "none"}

\* The returns of a log up to its first terminal error, NeedMoreData left out.
RECURSIVE Returned(_)
Returned(log) ==
    IF log = <<>> THEN <<>>
    ELSE IF IsTerminal(Head(log).error) THEN <<Head(log)>>
    ELSE IF Head(log).error = "NeedMoreData" THEN Returned(Tail(log))
    ELSE <<Head(log)>> \o Returned(Tail(log))

HasTerminal(log) == \E k \in 1..Len(log) : IsTerminal(log[k].error)

\* The run is over: a terminal error, or the input used up.
Finished == HasTerminal(out) \/ Exhausted

\* The whole text went in as one buffer.
SingleBuffer == Len(chunks) = 1 /\ rest = <<>> /\ tk.feed = <<>>

IsPrefix(s, t) == Len(s) <= Len(t) /\ s = SubSeq(t, 1, Len(s))


RECURSIVE RunToEnd(_, _, _, _)

\* The log after a return r of nextToken, the run going on while r is NoError.
RunOn(r, log, n) ==
    IF r.error = "NoError" THEN RunToEnd(r.tk, r.token, Append(log, Seen(r)), n - 1)
    ELSE IF r.error = "NeedMoreData" THEN log
    ELSE Append(log, Seen(r))

\* nextToken called on t until it returns something else than NoError, at
\* most n times: the returns, NeedMoreData left out.
RunToEnd(t, tok, log, n) ==
    IF n = 0 THEN log ELSE RunOn(nextToken(t, tok), log, n)

\* What tokenizing the text d as a single buffer returns.
WholeBuffer(d, policy) ==
    RunToEnd(addData(Configure(NewTokenizer, policy), d), NewToken, <<>>, Len(d) + 1)

(***************************************************************************)
(* The tokenizer's caller who registers need-more-data callbacks, before   *)
(* and between its nextToken calls.  Every callback hands over the next    *)
(* buffer of the text when it is invoked.                                  *)
(***************************************************************************)
MaxCallbacks == 3
MaxFeedCalls == 5

FeedDocs == {Doc_Hi, Doc_Object, Doc_Nested}

FeedInit ==
    \E d \in FeedDocs :
        \E cut \in Partitions(d, MaxChunks) :
            /\ chunks = cut
            /\ tk = [TokenizerFor(DefaultPolicy, cut, "manual") EXCEPT !.feed = cut]
            /\ rest = <<>>
            /\ token = NewToken
            /\ ret = "none"
            /\ out = <<>>

\* tokenizer.registerNeedMoreDataCallback(callback, oneShotCallback);
RegisterNeedMoreDataCallback ==
    /\ Len(tk.callbacks_registered) < MaxCallbacks
    /\ Len(out) < MaxFeedCalls
    /\ \E oneShotCallback \in BOOLEAN :
          tk' = registerNeedMoreDataCallback(tk, oneShotCallback)
    /\ UNCHANGED <<token, ret, out, rest, chunks, serVars, codecVars>>

\* tokenizer.nextToken(token), called by the caller of the callbacks.
NextTokenFed ==
    /\ Len(out) < MaxFeedCalls
    /\ \E r \in {nextToken(tk, token)} :
          /\ tk' = r.tk
          /\ token' = r.token
          /\ ret' = r.error
          /\ out' = Append(out, Seen(r))
    /\ UNCHANGED <<rest, chunks, serVars, codecVars>>
(***************************************************************************)
(* The tokenizer's caller who reads the error context.  The text comes in  *)
(* one or two buffers from a persistent need-more-data callback; the       *)
(* caller may set the error context's configuration before any call.       *)
(***************************************************************************)
MaxErrCalls == 8

\* [1,\n2\n}\n]
Err_Lines == <<91, 49, 44, 10, 50, 10, 125, 10, 93>>
\* [\n[\n[\n[\n[\n1}\n\n\n\n\n]
Err_Deep == <<91, 10, 91, 10, 91, 10, 91, 10, 91, 10, 49, 125, 10, 10, 10, 10, 10, 93>>

ErrDocs == {Err_Lines, Err_Deep, Doc_Newline, Doc_BraceAfter, Doc_Junk, Doc_ObjNewline}

\* lineContext and rangeContext of setErrorContextConfig; the first is the
\* configuration a Tokenizer is constructed with.
ErrConfigs == {[line |-> 4, range |-> 38], [line |-> 1, range |-> 2],
               [line |-> 2, range |-> 0], [line |-> 0, range |-> 1]}

ErrPolicies == {DefaultPolicy, [DefaultPolicy EXCEPT !.new_lines = TRUE]}

ErrInit ==
    \E d \in ErrDocs, policy \in ErrPolicies :
        \E cut \in Partitions(d, 2) :
            /\ chunks = cut
            /\ tk = TokenizerFor(policy, cut, "persistent")
            /\ rest = <<>>
            /\ token = NewToken
            /\ ret = "none"
            /\ out = <<>>

\* The program ended in a nextToken call.
Ended == ret = "crashed"

\* tokenizer.setErrorContextConfig(lineContext, rangeContext);
SetErrorContextConfig ==
    /\ ~Ended
    /\ Len(out) < MaxErrCalls
    /\ \E c \in ErrConfigs :
          /\ <<tk.line_context, tk.range_context>> # <<c.line, c.range>>
          /\ tk' = setErrorContextConfig(tk, c.line, c.range)
    /\ UNCHANGED <<token, ret, out, rest, chunks, serVars, codecVars>>

\* tokenizer.nextToken(token).  A call in which updateErrorContext reads
\* outside the buffer is undefined: the call returns with what the stray
\* bytes gave, or the program ends in it; with line_context 0 the loop has
\* no end but the end of the readable memory.
NextTokenOrCrash ==
    /\ ~Ended
    /\ Len(out) < MaxErrCalls
    /\ ~Starved
    /\ \E r \in {nextToken(tk, token)} :
          \E crash \in (IF ~r.tk.error_context.stray THEN {FALSE}
                        ELSE IF tk.line_context = 0 THEN {TRUE} ELSE BOOLEAN) :
             IF crash
             THEN ret' = "crashed" /\ UNCHANGED <<tk, token, out>>
             ELSE /\ tk' = r.tk
                  /\ token' = r.token
                  /\ ret' = r.error
                  /\ out' = Append(out, Seen(r))
    /\ UNCHANGED <<rest, chunks, serVars, codecVars>>

RECURSIVE Replay(_, _, _, _)

\* The calls that follow one that returned r.
ReplayOn(r, log, n) == Replay(r.tk, r.token, Append(log, Seen(r)), n - 1)

\* What n calls of nextToken return one after the other: [tk, token, log]
Replay(t, tok, log, n) ==
    IF n = 0 THEN [tk |-> t, token |-> tok, log |-> log]
    ELSE ReplayOn(nextToken(t, tok), log, n)
(***************************************************************************)
(* The serializer under test: a caller that writes tokens one after the    *)
(* other into buffers it supplies up front, on request or in between.      *)
(***************************************************************************)
MaxWrites == 3
MaxAppends == 1
SmallBuffer == 3
LargeBuffer == 64

SerToken(name_type, name, value_type, value) ==
    [name_type |-> name_type, name |-> SerRef(name, NUL),
     value_type |-> value_type, value |-> SerRef(value, NUL)]

Tok_ObjectStart == SerToken("String", <<>>, "ObjectStart", <<LBRACE>>)
Tok_ObjectEnd == SerToken("String", <<>>, "ObjectEnd", <<RBRACE>>)
Tok_A1 == SerToken("String", <<97>>, "Number", <<49>>)
Tok_ArrayStart == SerToken("String", <<98>>, "ArrayStart", <<LBRACKET>>)
Tok_ArrayEnd == SerToken("String", <<>>, "ArrayEnd", <<RBRACKET>>)
Tok_Hi == SerToken("String", <<>>, "String", <<104, 105>>)

SerTokens == {Tok_ObjectStart, Tok_ObjectEnd, Tok_A1, Tok_ArrayStart, Tok_ArrayEnd, Tok_Hi}

Styles == {"Pretty", "Compact"}

\* Capacities of the buffer given to the constructor; -1: Serializer().
FirstBuffers == {-1, SmallBuffer, LargeBuffer}

\* The request-buffer callbacks the caller registers: how many, and the
\* capacities they hand out in turn (none: the callback appends nothing).
Suppliers ==
    {[callbacks |-> 0, sizes |-> <<>>],
     [callbacks |-> 1, sizes |-> <<>>],
     [callbacks |-> 1, sizes |-> <<1>>],
     [callbacks |-> 1, sizes |-> <<1, SmallBuffer>>],
     [callbacks |-> 1, sizes |-> <<LargeBuffer>>],
     [callbacks |-> 2, sizes |-> <<1>>]}

\* Serializer(buffer, size), or Serializer(), then setOptions and the callbacks.
SerializerFor(style, first, callbacks, sizes) ==
    LET s0 == IF first < 0 THEN NewSerializer
              ELSE LET s == NewMemory(NewSerializer, first)
                   IN appendBuffer(s, Len(s.mem), first)
        s1 == setOptions(s0, SerializerOptions(style))
        s2 == IF callbacks >= 1 THEN addRequestBufferCallback(s1) ELSE s1
        s3 == IF callbacks >= 2 THEN addRequestBufferCallback(s2) ELSE s2
    IN [s3 EXCEPT !.cb_sizes = sizes]

SerInit ==
    /\ \E style \in Styles, first \in FirstBuffers, supplier \in Suppliers :
          sr = SerializerFor(style, first, supplier.callbacks, supplier.sizes)
    /\ wlog = <<>>

Crashed == wlog # <<>> /\ wlog[Len(wlog)].crashed

\* The caller writes one token.  A write through a dangling buffer pointer
\* is undefined: it either goes through the stale SerializerBuffer or ends
\* the program.  An exception that leaves write ends the program too.
Write ==
    /\ Len(wlog) < MaxWrites
    /\ ~Crashed
    /\ \E tok \in SerTokens :
          \E r \in {writeToken(sr, tok)} :
             \E crash \in (IF r.sr.ub THEN BOOLEAN ELSE {FALSE}) :
                /\ sr' = IF crash THEN [sr EXCEPT !.ub = TRUE] ELSE r.sr
                /\ wlog' = Append(wlog, [token |-> tok, ok |-> r.ok /\ ~crash,
                                         crashed |-> crash \/ r.sr.thrown])
    /\ UNCHANGED <<tokVars, codecVars>>

\* The caller appends a buffer of its own between two writes.
AppendBuffer ==
    /\ ~Crashed
    /\ Len(wlog) < MaxWrites
    /\ Len(sr.mem) - sr.cb_fired < MaxAppends + 1
    /\ LET s == NewMemory(sr, SmallBuffer)
       IN sr' = appendBuffer(s, Len(s.mem), SmallBuffer)
    /\ UNCHANGED <<wlog, tokVars, codecVars>>

RECURSIVE Written(_)
Written(log) == IF log = <<>> THEN <<>> ELSE <<Head(log).token>> \o Written(Tail(log))

AllOk(log) == \A i \in 1..Len(log) : log[i].ok

RECURSIVE writeAll(_, _)
writeAll(s, toks) ==
    IF toks = <<>> THEN s ELSE writeAll(writeToken(s, Head(toks)).sr, Tail(toks))

ReferenceCapacity == 256

\* The text a token sequence produces in one sufficiently large buffer.
SingleBufferText(option, toks) ==
    Output(writeAll(SerializerFor(option.m_style, ReferenceCapacity, 0, <<>>), toks))

(***************************************************************************)
(* The codec under test: a value of a JT_STRUCT type is serialized with    *)
(* serializeStruct, and the text is parsed back with parseData.            *)
(***************************************************************************)
\* struct { std::string s; }
S_Str == TStruct(<<Member(<<115>>, TString)>>)

\* struct { int i; }
S_Int == TStruct(<<Member(<<105>>, TInt)>>)

\* struct { bool b; }
S_Bool == TStruct(<<Member(<<98>>, TBool)>>)

\* struct { std::vector<int> v; }
S_Vec == TStruct(<<Member(<<118>>, TVector(TInt))>>)

\* struct { Optional<int> o; OptionalChecked<bool> c; std::unique_ptr<int> p; }
S_Opt == TStruct(<<Member(<<111>>, TOptional(TInt)),
                   Member(<<99>>, TOptionalChecked(TBool)),
                   Member(<<112>>, TUniquePtr(TInt))>>)

\* struct { S_Bool inner; std::string t; }
S_Nested == TStruct(<<Member(<<105, 110, 110, 101, 114>>, S_Bool),
                      Member(<<116>>, TString)>>)

\* struct Base { int a; }; struct Base2 { int c; };
S_Base == TStruct(<<Member(<<97>>, TInt)>>)
S_Base2 == TStruct(<<Member(<<99>>, TInt)>>)

\* struct Der : Base, Base2 { int b; int d;
\*     JT_STRUCT_WITH_SUPER(JT_SUPER_CLASSES(Base, Base2), JT_MEMBER(b), JT_MEMBER(d)); }
S_Der == JT_STRUCT_WITH_SUPER(JT_SUPER_CLASSES(<<S_Base, S_Base2>>),
                              <<Member(<<98>>, TInt), Member(<<100>>, TInt)>>)

\* struct { int z; S_Bool inner; int y; }
S_Mid == TStruct(<<Member(<<122>>, TInt), Member(<<105, 110, 110, 101, 114>>, S_Bool),
                   Member(<<121>>, TInt)>>)

\* The strings: empty, hi, a"b, "q
Strings == {<<>>, <<104, 105>>, <<97, QUOTE, 98>>, <<QUOTE, 113>>}

IntMin == (0 - IntMax) - 1

Ints == {0, 7, -12, 123456789, -123456789, 1234567890, -1234567890, IntMax, IntMin}

IntVectors == {<<>>, <<1>>, <<1, -2>>}

Checked == {[assigned |-> FALSE, data |-> FALSE], [assigned |-> TRUE, data |-> FALSE],
            [assigned |-> TRUE, data |-> TRUE]}

Nullable == {[present |-> FALSE, data |-> 0], [present |-> TRUE, data |-> 0],
             [present |-> TRUE, data |-> 7]}

\* The values to serialize, each with its type.
CodecCases ==
    {[type |-> S_Str, x |-> <<s>>] : s \in Strings}
    \cup {[type |-> S_Int, x |-> <<i>>] : i \in Ints}
    \cup {[type |-> S_Bool, x |-> <<b>>] : b \in BOOLEAN}
    \cup {[type |-> S_Vec, x |-> <<v>>] : v \in IntVectors}
    \cup {[type |-> S_Opt, x |-> <<o, c, p>>] : o \in {0, 7}, c \in Checked, p \in Nullable}
    \cup {[type |-> S_Nested, x |-> <<<<b>>, s>>] : b \in BOOLEAN, s \in Strings}
    \cup {[type |-> S_Der, x |-> <<b, d, a, c>>] : b \in {2, 7}, d \in {4, 7}, a \in {1, 7}, c \in {3, 7}}
    \cup {[type |-> S_Mid, x |-> <<z, <<b>>, y>>] : z \in {9, 8}, b \in BOOLEAN, y \in {9, 8}}

\* What may lie behind the int parser's buf on the stack: a terminator, a
\* digit, a brace.
StackBytes == {NUL, CH_9, RBRACE}

CodecInit ==
    \E case \in CodecCases, stack_byte \in StackBytes :
        cx = [phase |-> "start", type |-> case.type, x |-> case.x,
              stack_byte |-> stack_byte, text |-> <<>>, error |-> "NoError",
              result |-> ValueInit(case.type)]

\* std::string text = serializeStruct(x);
Serialize ==
    /\ cx.phase = "start"
    /\ cx' = [cx EXCEPT !.phase = "serialized",
                        !.text = serializeStruct(cx.type, cx.x, cx.stack_byte)]
    /\ UNCHANGED <<tokVars, serVars>>

\* auto context = makeParseContextForData(text.c_str(), text.size());
\* T result; parseData(result, context);
Parse ==
    /\ cx.phase = "serialized"
    /\ \E r \in {parseData(cx.type, ValueInit(cx.type), makeParseContextForData(cx.text))} :
          cx' = [cx EXCEPT !.phase = "parsed", !.error = r.ctx.error, !.result = r.value]
    /\ UNCHANGED <<tokVars, serVars>>

(***************************************************************************)
(* The decoder under test: the caller makes a ParseContext for a text it   *)
(* holds, may set the context's switches, and calls parseData for a value  *)
(* of a JT_STRUCT type.                                                    *)
(***************************************************************************)
\* struct { int a; int b; }
S_AB == TStruct(<<Member(<<97>>, TInt), Member(<<98>>, TInt)>>)

\* struct { int ab; }
S_Ab == TStruct(<<Member(<<97, 98>>, TInt)>>)

\* struct { int a; }
S_In == TStruct(<<Member(<<97>>, TInt)>>)

\* struct { S_In inner; int b; }
S_Out == TStruct(<<Member(<<105, 110, 110, 101, 114>>, S_In), Member(<<98>>, TInt)>>)

\* {"a":1,"b":2}
Txt_Both == <<123, 34, 97, 34, 58, 49, 44, 34, 98, 34, 58, 50, 125>>
\* {"a":1}
Txt_OnlyA == <<123, 34, 97, 34, 58, 49, 125>>
\* {"b":2}
Txt_OnlyB == <<123, 34, 98, 34, 58, 50, 125>>
\* {}
Txt_None == <<123, 125>>
\* {"u":7,"a":1,"b":2}
Txt_UnknownScalar == <<123, 34, 117, 34, 58, 55, 44, 34, 97, 34, 58, 49, 44, 34, 98, 34, 58, 50, 125>>
\* {"u":[1,2],"a":1,"b":2}
Txt_UnknownArray == <<123, 34, 117, 34, 58, 91, 49, 44, 50, 93, 44, 34, 97, 34, 58, 49, 44, 34, 98, 34, 58, 50, 125>>
\* {"u":{"x":5},"a":1,"b":2}
Txt_UnknownObject == <<123, 34, 117, 34, 58, 123, 34, 120, 34, 58, 53, 125, 44, 34, 97, 34, 58, 49, 44, 34, 98, 34, 58, 50, 125>>
\* {"u":{"a":5},"a":1}
Txt_UnknownShadow == <<123, 34, 117, 34, 58, 123, 34, 97, 34, 58, 53, 125, 44, 34, 97, 34, 58, 49, 125>>
\* {"a":1,"u":7,"b":2}
Txt_UnknownMiddle == <<123, 34, 97, 34, 58, 49, 44, 34, 117, 34, 58, 55, 44, 34, 98, 34, 58, 50, 125>>
\* {"ab":1}
Txt_Exact == <<123, 34, 97, 98, 34, 58, 49, 125>>
\* {"abc":1}
Txt_Longer == <<123, 34, 97, 98, 99, 34, 58, 49, 125>>
\* {"b":true}
Txt_True == <<123, 34, 98, 34, 58, 116, 114, 117, 101, 125>>
\* {"b":false}
Txt_False == <<123, 34, 98, 34, 58, 102, 97, 108, 115, 101, 125>>
\* {"b":"truex"}
Txt_TruexString == <<123, 34, 98, 34, 58, 34, 116, 114, 117, 101, 120, 34, 125>>
\* {"b":truex}
Txt_Truex == <<123, 34, 98, 34, 58, 116, 114, 117, 101, 120, 125>>
\* {"b":"tr"}
Txt_TrString == <<123, 34, 98, 34, 58, 34, 116, 114, 34, 125>>
\* {"b":tru}
Txt_Tru == <<123, 34, 98, 34, 58, 116, 114, 117, 125>>
\* {"b":"falsely"}
Txt_FalselyString == <<123, 34, 98, 34, 58, 34, 102, 97, 108, 115, 101, 108, 121, 34, 125>>
\* {"b":1}
Txt_One == <<123, 34, 98, 34, 58, 49, 125>>
\* {"b":null}
Txt_Null == <<123, 34, 98, 34, 58, 110, 117, 108, 108, 125>>
\* {"inner":{"a":1},"b":2}
Txt_Inner == <<123, 34, 105, 110, 110, 101, 114, 34, 58, 123, 34, 97, 34, 58, 49, 125, 44, 34, 98, 34, 58, 50, 125>>
\* {"inner":{},"b":2}
Txt_InnerEmpty == <<123, 34, 105, 110, 110, 101, 114, 34, 58, 123, 125, 44, 34, 98, 34, 58, 50, 125>>

\* struct { std::unique_ptr<int> p; }
S_Ptr == TStruct(<<Member(<<112>>, TUniquePtr(TInt))>>)

\* {"v":[1,2,3]}
Txt_Vec123 == <<123, 34, 118, 34, 58, 91, 49, 44, 50, 44, 51, 93, 125>>
\* {"v":[]}
Txt_VecEmpty == <<123, 34, 118, 34, 58, 91, 93, 125>>
\* {"v":1}
Txt_VecScalar == <<123, 34, 118, 34, 58, 49, 125>>
\* {"v":[1,true]}
Txt_VecBadElem == <<123, 34, 118, 34, 58, 91, 49, 44, 116, 114, 117, 101, 93, 125>>
\* {"v":[1,2 3]}
Txt_VecBadNext == <<123, 34, 118, 34, 58, 91, 49, 44, 50, 32, 51, 93, 125>>
\* {"v":[1 2]}
Txt_VecBadFirst == <<123, 34, 118, 34, 58, 91, 49, 32, 50, 93, 125>>
\* {"v":[
Txt_VecCut == <<123, 34, 118, 34, 58, 91>>
\* {"p":null}
Txt_PtrNull == <<123, 34, 112, 34, 58, 110, 117, 108, 108, 125>>
\* {"p":5}
Txt_PtrFive == <<123, 34, 112, 34, 58, 53, 125>>
\* {"p":true}
Txt_PtrTrue == <<123, 34, 112, 34, 58, 116, 114, 117, 101, 125>>
\* {"p":"null"}
Txt_PtrString == <<123, 34, 112, 34, 58, 34, 110, 117, 108, 108, 34, 125>>
\* {"c":true}
Txt_ChkTrue == <<123, 34, 99, 34, 58, 116, 114, 117, 101, 125>>
\* {"c":1}
Txt_ChkOne == <<123, 34, 99, 34, 58, 49, 125>>
\* {"o":3}
Txt_OptThree == <<123, 34, 111, 34, 58, 51, 125>>

\* struct { std::vector<int> v; int a; }
S_VA == TStruct(<<Member(<<118>>, TVector(TInt)), Member(<<97>>, TInt)>>)

\* {"a":1,"b":2,"a":3}
Txt_DupA == <<123, 34, 97, 34, 58, 49, 44, 34, 98, 34, 58, 50, 44, 34, 97, 34, 58, 51, 125>>
\* {"v":[1],"a":5,"v":[2],"a":6}
Txt_DupVA == <<123, 34, 118, 34, 58, 91, 49, 93, 44, 34, 97, 34, 58, 53, 44, 34, 118, 34, 58, 91, 50, 93, 44, 34, 97, 34, 58, 54, 125>>

\* The texts to decode, each with the type and the value the caller
\* constructed before the call.
DecodeCases ==
    {[type |-> S_AB, text |-> t, x |-> <<-1, -1>>] :
        t \in {Txt_Both, Txt_OnlyA, Txt_OnlyB, Txt_None, Txt_UnknownScalar,
               Txt_UnknownArray, Txt_UnknownObject, Txt_UnknownShadow, Txt_UnknownMiddle,
               Txt_DupA}}
    \cup {[type |-> S_VA, text |-> Txt_DupVA, x |-> <<<<>>, -1>>]}
    \cup {[type |-> S_Ab, text |-> t, x |-> <<-1>>] :
            t \in {Txt_Exact, Txt_Longer, Txt_OnlyA}}
    \cup {[type |-> S_Bool, text |-> t, x |-> <<b>>] :
            t \in {Txt_True, Txt_False, Txt_TruexString, Txt_Truex, Txt_TrString,
                   Txt_Tru, Txt_FalselyString, Txt_One, Txt_Null},
            b \in BOOLEAN}
    \cup {[type |-> S_Out, text |-> t, x |-> <<<<-1>>, -1>>] :
            t \in {Txt_Inner, Txt_InnerEmpty, Txt_OnlyB}}
    \cup {[type |-> S_Vec, text |-> t, x |-> <<<<>>>>] :
            t \in {Txt_Vec123, Txt_VecEmpty, Txt_VecScalar, Txt_VecBadElem,
                   Txt_VecBadNext, Txt_VecBadFirst, Txt_VecCut}}
    \cup {[type |-> S_Ptr, text |-> t, x |-> <<p>>] :
            t \in {Txt_PtrNull, Txt_PtrFive, Txt_PtrTrue, Txt_PtrString, Txt_None},
            p \in {[present |-> FALSE, data |-> 0], [present |-> TRUE, data |-> 7]}}
    \cup {[type |-> S_Opt, text |-> t,
           x |-> <<-1, [assigned |-> FALSE, data |-> FALSE], [present |-> FALSE, data |-> 0]>>] :
            t \in {Txt_None, Txt_ChkTrue, Txt_ChkOne, Txt_OptThree, Txt_PtrFive}}

\* Tokenizer::allowAsciiType
allowAsciiType(t, allow) == [t EXCEPT !.allow_ascii_properties = allow]

DecodeInit ==
    \E case \in DecodeCases :
        cx = [phase |-> "made", type |-> case.type, text |-> case.text,
              context |-> makeParseContextForData(case.text),
              x |-> case.x, result |-> case.x, encoded |-> <<>>]

\* context.allow_missing_members = false;
SetMissingFatal ==
    /\ cx.phase = "made"
    /\ cx.context.allow_missing_members
    /\ cx' = [cx EXCEPT !.context.allow_missing_members = FALSE]
    /\ UNCHANGED <<tokVars, serVars>>

\* context.allow_unnasigned_required__members = false;
SetUnassignedFatal ==
    /\ cx.phase = "made"
    /\ cx.context.allow_unnasigned_required__members
    /\ cx' = [cx EXCEPT !.context.allow_unnasigned_required__members = FALSE]
    /\ UNCHANGED <<tokVars, serVars>>

\* context.tokenizer.allowAsciiType(true);
AllowAsciiType ==
    /\ cx.phase = "made"
    /\ ~cx.context.tokenizer.allow_ascii_properties
    /\ cx' = [cx EXCEPT !.context.tokenizer = allowAsciiType(@, TRUE)]
    /\ UNCHANGED <<tokVars, serVars>>

\* parseData(x, context);
Decode ==
    /\ cx.phase = "made"
    /\ \E r \in {parseData(cx.type, cx.x, cx.context)} :
          cx' = [cx EXCEPT !.phase = "parsed", !.context = r.ctx, !.result = r.value]
    /\ UNCHANGED <<tokVars, serVars>>

\* std::string encoded = serializeStruct(x); what lies behind the int
\* parser's buf on the stack is the caller's.
Encode ==
    /\ cx.phase = "parsed"
    /\ \E stack_byte \in StackBytes :
          cx' = [cx EXCEPT !.phase = "encoded",
                           !.encoded = serializeStruct(cx.type, cx.result, stack_byte)]
    /\ UNCHANGED <<tokVars, serVars>>

\* The decode is over.
Decoded == cx.phase \in {"parsed", "encoded"}

\* The decoded value was serialized.
Encoded == cx.phase = "encoded"

\* What the decode was called with.
Soft == cx.context.allow_missing_members
Lenient == cx.context.allow_unnasigned_required__members

(***************************************************************************)
(* Properties of the tokenizer, checked under Spec.                        *)
(***************************************************************************)
Returns(error, name, name_type, value, value_type) ==
    [error |-> error,
     token |-> [name |-> name, name_type |-> name_type,
                value |-> value, value_type |-> value_type]]

Anonymous(value, value_type) == Returns("NoError", <<>>, "Ascii", value, value_type)

Property(name, value, value_type) == Returns("NoError", name, "String", value, value_type)

\* The texts of Docs that are JSON documents (RFC 8259).
JsonDocs == {Doc_Nested, Doc_Hi, Doc_Strings, Doc_Object, Doc_Empty, Doc_Escape,
             Doc_Number}

\* C1: chunk-invariance.  Once a run is over, what nextToken returned (the
\* tokens and the terminal error, if any) is what tokenizing the whole text
\* as one buffer returns, however the text was cut into buffers.
C1_ChunkInvariance ==
    (Doc \in JsonDocs /\ Finished) => Returned(out) = WholeBuffer(Doc, PolicyOf(tk))

\* C2: a suspension after a name was scanned (the tokenizer waits for the
\* delimiter or for the value) keeps that name in the intermediate token.
C2_NameKeptOnSuspend ==
    (tk.continue_after_need_more_data
        /\ tk.token_state \in {"FindingDelimiter", "FindingData"})
    => tk.intermediate_token.active

C3_Expected ==
    <<Anonymous(<<LBRACE>>, "ObjectStart"),
      Property(<<97>>, <<49>>, "Number"),
      Property(<<98>>, <<LBRACKET>>, "ArrayStart"),
      Anonymous(true_text, "Bool"),
      Anonymous(false_text, "Bool"),
      Anonymous(null_text, "Null"),
      Anonymous(<<RBRACKET>>, "ArrayEnd"),
      Anonymous(<<RBRACE>>, "ObjectEnd")>>

C3_Case == Doc = Doc_Nested /\ SingleBuffer /\ PolicyOf(tk) = DefaultPolicy

\* C3: with default policies the single buffer {"a":1,"b":[true,false,null]}
\* gives ObjectStart, a = Number 1, b = ArrayStart, Bool true, Bool false,
\* Null null, ArrayEnd, ObjectEnd, each with NoError and in this order, and
\* nothing else before the input is used up.
C3_NestedTokens ==
    C3_Case =>
        /\ IsPrefix(Returned(out), C3_Expected)
        /\ (Exhausted => Returned(out) = C3_Expected)

C3_Witness == C3_Case /\ Exhausted /\ Returned(out) = C3_Expected

\* {"x":"hi  and  "}
C4_Chunks == <<SubSeq(Doc_Hi, 1, 8), SubSeq(Doc_Hi, 9, 10)>>

C4_Expected ==
    <<Anonymous(<<LBRACE>>, "ObjectStart"),
      Property(<<120>>, <<104, 105>>, "String"),
      Anonymous(<<RBRACE>>, "ObjectEnd")>>

NeedMore == [error |-> "NeedMoreData", token |-> TokenView(NewTokenizer, NewToken)]

\* The returns when the second buffer is added after the tokenizer asked.
C4_OneAfterAnother ==
    <<C4_Expected[1], NeedMore, C4_Expected[2], C4_Expected[3], NeedMore>>

\* C4: the buffers {"x":"hi and "} give ObjectStart, then exactly one token
\* x = String hi, then ObjectEnd: no token twice, no byte of the value lost
\* or doubled.  When the second buffer is added only after the first ran
\* out, NeedMoreData comes between ObjectStart and the token x.
C4_SplitString ==
    chunks = C4_Chunks =>
        /\ IsPrefix(Returned(out), C4_Expected)
        /\ (Exhausted => Returned(out) = C4_Expected)
        /\ (tk.added = 1 /\ Len(out) >= 1 /\ out[1].error = "NoError"
               => IsPrefix(out, C4_OneAfterAnother))
        /\ (Len(out) >= 2 /\ out[1].error = "NoError" /\ out[2].error = "NeedMoreData"
               => IsPrefix(out, C4_OneAfterAnother))

C4_Witness == chunks = C4_Chunks /\ out = C4_OneAfterAnother

SuperfluousCommaDocs == {Doc_Trailing, Doc_ObjTrailing}

\* C5: without allowSuperfluousComma a single buffer in which ',' is
\* directly followed by the closing ']' or '}' ends in ExpectedDataToken.
C5_SuperfluousCommaRejected ==
    (Doc \in SuperfluousCommaDocs /\ SingleBuffer /\ ~tk.allow_superfluous_comma
        /\ Finished)
    => Returned(out)[Len(Returned(out))].error = "ExpectedDataToken"


(***************************************************************************)
(* Serializer claims.                                                      *)
(***************************************************************************)
\* The tokens of the object {"a":1}.
PlainObject == <<Tok_ObjectStart, Tok_A1, Tok_ObjectEnd>>

\* The writes so far all returned true, on defined behaviour.
Accepted == AllOk(wlog) /\ ~sr.ub /\ ~Crashed

Compact == sr.m_option.m_style = "Compact"

Pretty == sr.m_option.m_style = "Pretty"

C7_Text == <<LBRACE, QUOTE, 97, QUOTE, COLON, 49, RBRACE>>

\* C7: in Compact style the tokens ObjectStart, a : 1, ObjectEnd give exactly
\* the bytes {"a":1}, and Compact output of any accepted token sequence has
\* no indentation, no newline and no space (the tokens themselves have none).
C7_CompactText ==
    (Compact /\ Accepted) =>
        /\ Written(wlog) = PlainObject => Output(sr) = C7_Text
        /\ sr.m_option.m_prefix = <<>>
        /\ \A i \in 1..Len(Output(sr)) : Output(sr)[i] \notin {SPACE, NL, TAB}

C7_Witness ==
    Compact /\ Accepted /\ Written(wlog) = PlainObject /\ Output(sr) = C7_Text

C8_Text ==
    <<LBRACE, NL, SPACE, SPACE, SPACE, SPACE, QUOTE, 97, QUOTE, SPACE, COLON, SPACE, 49,
      NL, RBRACE>>

C8_Case == Pretty /\ Accepted /\ Written(wlog) = PlainObject

\* C8 as stated: in Pretty style the tokens ObjectStart, a : 1, ObjectEnd
\* give '{', newline, four spaces, "a" : 1, newline, '}', newline: the
\* closing brace too is followed by a newline.
C8_ClosingNewline == C8_Case => Output(sr) = C8_Text \o <<NL>>

Quoted(bytes) == <<QUOTE>> \o bytes \o <<QUOTE>>

\* The indentation, name, value delimiter and value of one token at depth d.
PrettyToken(tok, d) ==
    Spaces(4 * d)
    \o (IF tok.name.bytes = <<>> THEN <<>>
        ELSE Quoted(tok.name.bytes) \o <<SPACE, COLON, SPACE>>)
    \o (IF tok.value_type = "String" THEN Quoted(tok.value.bytes) ELSE tok.value.bytes)

RECURSIVE PrettyText(_, _, _)
\* The Pretty text of toks[i..]: token i stands at depth d; a token that is
\* not the first is preceded by a newline, and by a comma before it if it is
\* a sibling.
PrettyText(toks, i, d) ==
    IF i > Len(toks) THEN <<>>
    ELSE LET tok == toks[i]
             at == IF IsEndType(tok.value_type) THEN d - 1 ELSE d
             sep == IF i = 1 THEN <<>>
                    ELSE (IF ~IsStartType(toks[i - 1].value_type)
                             /\ ~IsEndType(tok.value_type)
                          THEN <<COMMA>> ELSE <<>>) \o <<NL>>
         IN sep \o PrettyToken(tok, at)
            \o PrettyText(toks, i + 1, IF IsStartType(tok.value_type) THEN at + 1 ELSE at)

\* C8, amended: in Pretty style with shift width 4 the tokens ObjectStart,
\* a : 1, ObjectEnd give exactly the 15 bytes '{', newline, four spaces,
\* "a" : 1, newline, '}'.  Every token but the first is preceded by a
\* newline, nothing follows the last token, and a token at depth d is
\* indented by 4*d spaces.
C8_PrettyText ==
    (Pretty /\ Accepted) =>
        /\ Written(wlog) = PlainObject => Output(sr) = C8_Text
        /\ Output(sr) = PrettyText(Written(wlog), 1, 0)
        /\ sr.m_option.m_depth >= 0
        /\ sr.m_option.m_prefix = Spaces(4 * sr.m_option.m_depth)

C8_Witness == C8_Case /\ Output(sr) = C8_Text /\ Len(Output(sr)) = 15

\* The free bytes of the buffers that are still unused.
RECURSIVE Room(_, _)
Room(s, ptrs) ==
    IF ptrs = <<>> THEN 0
    ELSE LET buf == s.store[Head(ptrs).block][Head(ptrs).idx]
         IN (buf.size - buf.used) + Room(s, Tail(ptrs))

\* The number of bytes the next write of tok puts out, given room for all.
Need(s, tok) ==
    LET s0 == NewMemory([s EXCEPT !.m_unused_buffers = <<>>, !.store = <<<<>>>>,
                                  !.capacity = 0, !.mem = <<>>], ReferenceCapacity)
    IN Len(Output(writeToken(appendBuffer(s0, 1, ReferenceCapacity), tok).sr))

NoSupply(s) == s.m_request_buffer_callbacks = 0 \/ s.cb_sizes = <<>>

WithinCapacity(s) ==
    \A b \in 1..Len(s.store) : \A i \in 1..Len(s.store[b]) :
        s.store[b][i].used <= s.store[b][i].size

\* C9: a write of a token whose bytes do not fit in the remaining capacity,
\* with no request-buffer callback (or one that appends nothing), returns
\* false in that same call, and no buffer's used count exceeds its size.
C9_FailsWithoutSupply ==
    [][(/\ Len(wlog') = Len(wlog) + 1
        /\ ~sr.ub /\ ~sr'.ub /\ ~sr'.thrown
        /\ NoSupply(sr)
        /\ Need(sr, wlog'[Len(wlog')].token) > Room(sr, sr.m_unused_buffers))
       => (~wlog'[Len(wlog')].ok /\ WithinCapacity(sr'))]_vars

C9_Witness ==
    /\ wlog # <<>> /\ ~wlog[Len(wlog)].ok /\ ~Crashed /\ ~sr.ub
    /\ NoSupply(sr)
    /\ Len(AllBuffers(sr)) = 1
    /\ AllBuffers(sr)[1].size = SmallBuffer /\ AllBuffers(sr)[1].used = SmallBuffer

\* C10: with one request-buffer callback that appends a fresh buffer of
\* capacity >= 1 each time it fires, every write returns true and the used
\* bytes of the buffers, in the order they were appended, are the text the
\* same tokens give in one large buffer.
C10_OutputChunkInvariance ==
    (sr.m_request_buffer_callbacks = 1 /\ sr.cb_sizes # <<>> /\ ~sr.ub /\ ~Crashed) =>
        /\ AllOk(wlog)
        /\ Output(sr) = SingleBufferText(sr.m_option, Written(wlog))

\* A token lies in three buffers or more.
C10_Witness ==
    /\ sr.m_request_buffer_callbacks = 1 /\ sr.cb_sizes = <<1>> /\ ~sr.ub
    /\ Written(wlog) = PlainObject /\ AllOk(wlog)
    /\ Len(AllBuffers(sr)) >= 15
    /\ Output(sr) = SingleBufferText(sr.m_option, PlainObject)

(***************************************************************************)
(* Codec claims.                                                           *)
(***************************************************************************)
\* C6: parsing the text serializeStruct produced for x returns NoError and
\* a value equal to x.
C6_RoundTrip == cx.phase = "parsed" => (cx.error = "NoError" /\ cx.result = cx.x)

(***************************************************************************)
(* Properties of the decoder, checked under DecodeSpec.                    *)
(***************************************************************************)
\* The texts in which a non-optional member of the decoded type has no
\* property (and every property has a member), with the names verifyMembers
\* reports and the value the present properties give.
C11_Texts ==
    {<<S_AB, Txt_OnlyA>>, <<S_AB, Txt_OnlyB>>, <<S_AB, Txt_None>>, <<S_Out, Txt_OnlyB>>}

C11_Case == Decoded /\ <<cx.type, cx.text>> \in C11_Texts

C11_Names ==
    IF cx.type = S_Out THEN {<<105, 110, 110, 101, 114>>}
    ELSE IF cx.text = Txt_OnlyA THEN {<<98>>}
    ELSE IF cx.text = Txt_OnlyB THEN {<<97>>}
    ELSE {<<97>>, <<98>>}

C11_Value ==
    IF cx.type = S_Out THEN <<<<-1>>, 2>>
    ELSE IF cx.text = Txt_OnlyA THEN <<1, -1>>
    ELSE IF cx.text = Txt_OnlyB THEN <<-1, 2>>
    ELSE <<-1, -1>>

Range(seq) == {seq[i] : i \in 1..Len(seq)}

\* What both readings of C11 agree on: the soft configuration returns
\* NoError with the names in unassigned_required_members, and error is what
\* the strict configuration returns, at ObjectEnd, with the present
\* properties decoded.
C11_Outcome(error) ==
    /\ Range(cx.context.unassigned_required_members) = C11_Names
    /\ cx.result = C11_Value
    /\ cx.context.token.value_type = "ObjectEnd"
    /\ cx.context.error = IF Lenient THEN "NoError" ELSE error

\* C11: decoding an object that lacks a property for a non-optional member
\* returns NoError in the soft configuration, with the member's name in the
\* diagnostics list; in the strict configuration it fails with
\* MissingPropertyMember, at the ObjectEnd, the present properties decoded.
C11_MissingRequired == C11_Case => C11_Outcome("MissingPropertyMember")

\* C11, amended: the strict configuration fails with
\* UnassignedRequiredMember (MissingPropertyMember is the error of a
\* property that has no member); the rest is as the claim says.
C11_UnassignedRequired == C11_Case => C11_Outcome("UnassignedRequiredMember")

C11_Witness ==
    /\ C11_Case /\ ~Lenient /\ cx.type = S_AB /\ cx.text = Txt_OnlyA
    /\ cx.context.error = "UnassignedRequiredMember"
    /\ cx.result = <<1, -1>>
    /\ cx.context.unassigned_required_members = <<<<98>>>>

\* The texts for struct { int a; int b; } with a property u that has no
\* member: its value is a number, an array, an object.
C12_Texts ==
    {Txt_UnknownScalar, Txt_UnknownArray, Txt_UnknownObject, Txt_UnknownShadow,
     Txt_UnknownMiddle}

C12_Case == Decoded /\ cx.type = S_AB /\ cx.text \in C12_Texts

\* What the properties a and b of the text give.
C12_Value == IF cx.text = Txt_UnknownShadow THEN <<1, -1>> ELSE <<1, 2>>

\* What the properties in front of u give.
C12_ValueBefore == IF cx.text = Txt_UnknownMiddle THEN <<1, -1>> ELSE <<-1, -1>>

\* C12: a property whose name matches no member is recorded in
\* missing_members.  In the soft configuration the decode goes on: the
\* properties behind it are decoded into their members, no token of its
\* value is matched against the members (so u is the only name recorded),
\* and the decode ends at the closing brace of the object; in the strict
\* configuration the decode stops with an error at the unknown property.
C12_UnknownSkipped ==
    C12_Case =>
        /\ <<117>> \in Range(cx.context.missing_members)
        /\ Soft =>
              /\ cx.result = C12_Value
              /\ cx.context.missing_members = <<<<117>>>>
              /\ cx.context.token.value_type = "ObjectEnd"
              /\ cx.context.tokenizer.cursor_index = Len(cx.text)
        /\ ~Soft =>
              /\ cx.context.error = "MissingPropertyMember"
              /\ cx.context.missing_members = <<<<117>>>>
              /\ cx.result = C12_ValueBefore

(***************************************************************************)
(* Properties of the tokenizer's buffers and policies, checked under Spec. *)
(***************************************************************************)
Ids(list) == [i \in 1..Len(list) |-> list[i].id]

NoDuplicates(seq) == \A i, j \in 1..Len(seq) : i # j => seq[i] # seq[j]

\* Every pointer the release callback got is one of a buffer that was added,
\* and none came twice; a buffer that was added is in the queue or was
\* released, never both.
C13_ExactlyOnce ==
    /\ NoDuplicates(tk.released)
    /\ \A i \in 1..Len(tk.released) : tk.released[i] \in 1..tk.added
    /\ \A id \in 1..tk.added :
          (id \in Range(Ids(tk.data_list))) # (id \in Range(tk.released))
    /\ tk.released = [i \in 1..Len(tk.release_log) |-> tk.release_log[i].ptr]

\* A release on NeedMoreData is one of a buffer the scan went through to
\* its last byte.
C13_NotEarly ==
    \A i \in 1..Len(tk.release_log) :
        tk.release_log[i].error = "NeedMoreData" => tk.release_log[i].unscanned = 0

\* C13: every buffer given to addData goes to the release callback exactly
\* once, never twice and never a pointer that was not added, and not before
\* the scan consumed all its bytes or a terminal error discarded it: a
\* buffer with bytes the scan has not seen is not released on NeedMoreData.
C13_ReleasedOnce == C13_ExactlyOnce /\ C13_NotEarly

\* The number of terminal errors in a log of returns or of releases.
Terminals(log) == Cardinality({k \in 1..Len(log) : IsTerminal(log[k].error)})

\* The release that belongs to the terminal error nextToken just returned:
\* the last of the history, and the only one this error caused; the buffers
\* behind it are still queued, the cursor is 0.
C14_FrontDiscarded ==
    /\ tk.release_log # <<>>
    /\ tk.release_log[Len(tk.release_log)].error = ret
    /\ Terminals(tk.release_log) = Terminals(out)
    /\ Ids(tk.data_list) = [i \in 1..Len(tk.data_list) |-> Len(tk.released) + i]
    /\ tk.cursor_index = 0
    /\ ~tk.continue_after_need_more_data

\* The next call starts with the scan for a value: the tokenizer is not in
\* the failed token's search for a delimiter or for the token's end.
C14_NewValueScan == tk.token_state \in {"FindingName", "FindingData"}

\* C14: when nextToken returns a terminal error, the buffer at the front of
\* the queue is released whole and no other, the cursor is 0,
\* continue_after_need_more_data is false, and the next call starts a new
\* value scan instead of resuming the failed token.
C14_TerminalError == IsTerminal(ret) => (C14_FrontDiscarded /\ C14_NewValueScan)

\* What holds of the state a terminal error leaves.
C14_Discarded == IsTerminal(ret) => C14_FrontDiscarded

\* The token nextToken left with the caller went through the transformer,
\* which marks its name type.
Transformed(tok) == tok.name_type = "Error"

\* C15: once a token transformer is registered, every nextToken call that
\* returns NoError hands the caller the token as the transformer rewrote it,
\* and a call that returns NeedMoreData or a terminal error does not invoke
\* the transformer.
C15_TransformerOnSuccess ==
    [][(tk.registered > 0 /\ Len(out') = Len(out) + 1)
       => (Transformed(token') <=> ret' = "NoError")]_vars

\* The texts with a bareword value that is not true, false or null: abc as
\* an element of an array, no as the value of a property.
BarewordValueDocs == {Doc_Bare, Doc_BareValue}

LastOf(seq) == seq[Len(seq)]

\* C16: with allowAsciiType false no token of value type Ascii is returned
\* with NoError, and a text with a bareword value other than true, false and
\* null ends in IlligalDataValue, be the bareword the value of a property or
\* an element of an array.
C16_BarewordValueRejected ==
    ~tk.allow_ascii_properties =>
        /\ \A k \in 1..Len(out) :
              out[k].error = "NoError" => out[k].token.value_type # "Ascii"
        /\ (Doc \in BarewordValueDocs /\ Finished) =>
              /\ Returned(out) # <<>>
              /\ LastOf(Returned(out)).error = "IlligalDataValue"

\* The texts with a property name that is not a quoted string.
BarewordNameDocs == {Doc_BareName, Doc_BareNameSpace}

\* C17: with allowAsciiType false no token with a non-empty name of another
\* name type than String is returned with NoError, and a text with a
\* property name that is not a quoted string ends in IlligalPropertyName,
\* however the text is cut into buffers.
C17_BarewordNameRejected ==
    ~tk.allow_ascii_properties =>
        /\ \A k \in 1..Len(out) :
              (out[k].error = "NoError" /\ out[k].token.name # <<>>)
              => out[k].token.name_type = "String"
        /\ (Doc \in BarewordNameDocs /\ Finished) =>
              /\ Returned(out) # <<>>
              /\ LastOf(Returned(out)).error = "IlligalPropertyName"

\* The texts that are an array of one string: "", "\"x" and "a\"b".
StringDocs == {Doc_Empty, Doc_EscapeFirst, Doc_Escape}

\* The bytes between the opening quote and the first later quote that no
\* backslash escapes.
C18_Span ==
    IF Doc = Doc_Empty THEN <<>>
    ELSE IF Doc = Doc_EscapeFirst THEN <<BSLASH, QUOTE, 120>>
    ELSE <<97, BSLASH, QUOTE, 98>>

C18_Expected ==
    <<Anonymous(<<LBRACKET>>, "ArrayStart"),
      Anonymous(C18_Span, "String"),
      Anonymous(<<RBRACKET>>, "ArrayEnd")>>

\* ["a\  and  "b"]: the buffer ends behind the backslash.
C18_Chunks == <<SubSeq(Doc_Escape, 1, 4), SubSeq(Doc_Escape, 5, 8)>>

\* C18: the span of a String token is the bytes between the opening quote
\* and the first later quote that is not escaped, the escaping counted from
\* the first byte behind the opening quote: "" gives a String of length 0,
\* "\"x" the three bytes \"x; the escape state survives the end of a buffer.
C18_StringSpans ==
    (Doc \in StringDocs /\ (SingleBuffer \/ chunks = C18_Chunks)) =>
        /\ SingleBuffer => IsPrefix(Returned(out), C18_Expected)
        /\ Exhausted => Returned(out) = C18_Expected

(***************************************************************************)
(* Properties of the decoder's matching, checked under DecodeSpec.         *)
(***************************************************************************)
\* The name of the one property of the texts for struct { int ab; }.
C19_Name ==
    IF cx.text = Txt_Exact THEN <<97, 98>>
    ELSE IF cx.text = Txt_Longer THEN <<97, 98, 99>>
    ELSE <<97>>

\* C19: a property is assigned to a member only if its name equals the
\* member's name, in length and in every byte.  For the member ab the
\* property ab is decoded; the longer name abc and the shorter name a match
\* no member: they are recorded as unknown, the member keeps its value, and
\* with allow_missing_members false the decode fails.
C19_ExactNameMatch ==
    (Decoded /\ cx.type = S_Ab) =>
        IF C19_Name = <<97, 98>>
        THEN cx.result = <<1>> /\ cx.context.missing_members = <<>>
        ELSE /\ cx.result = <<-1>>
             /\ cx.context.missing_members = <<C19_Name>>
             /\ ~Soft => cx.context.error = "MissingPropertyMember"

\* The texts for struct { bool b; } whose value of b reaches the bool
\* parser: the barewords truex and tru do so if the tokenizer allows them.
C20_Case ==
    /\ Decoded /\ cx.type = S_Bool
    /\ cx.text \in {Txt_Truex, Txt_Tru} => cx.context.tokenizer.allow_ascii_properties

\* C20: bool decode gives true only for the value true and false only for
\* the value false; for every other value, also one that starts with true
\* or false ("truex", truex, "falsely") or is shorter ("tr", tru), it
\* returns FailedToParseBoolen and leaves the target as it was.
C20_ExactBool ==
    C20_Case =>
        IF cx.text = Txt_True
        THEN cx.context.error = "NoError" /\ cx.result = <<TRUE>>
        ELSE IF cx.text = Txt_False
        THEN cx.context.error = "NoError" /\ cx.result = <<FALSE>>
        ELSE cx.context.error = "FailedToParseBoolen" /\ cx.result = cx.x
(***************************************************************************)
(* Serializer claims: the output buffers.                                  *)
(***************************************************************************)
\* Byte strings handed to SerializerBuffer::append: none, one that fits a
\* buffer of one free byte, and longer ones.
AppendData == {<<>>, <<120>>, <<120, 121>>, <<120, 121, 122, 119>>}

\* The bytes of the memory block of buf that lie below its used count.
UsedPart(s, buf) == SubSeq(s.mem[buf.buffer], 1, buf.used)

\* append(data) through ptr on the serializer s gave s2: all of data was
\* copied behind the used bytes and used grew by its length, or false was
\* returned and nothing changed.
AppendAllOrNothing(s, ptr, data, s2) ==
    LET buf == s.store[ptr.block][ptr.idx]
        buf2 == s2.store[ptr.block][ptr.idx]
    IN IF appendFits(buf, Len(data))
       THEN /\ buf2.used = buf.used + Len(data)
            /\ UsedPart(s2, buf2) = UsedPart(s, buf) \o data
            /\ buf2.used <= buf2.size
       ELSE s2 = s

\* A step of the serializer keeps every buffer of buffers() in its place,
\* with a used count that did not shrink and the bytes below it as they were.
UsedOnlyGrows(s, s2) ==
    /\ Len(AllBuffers(s2)) >= Len(AllBuffers(s))
    /\ \A i \in 1..Len(AllBuffers(s)) :
          LET buf == AllBuffers(s)[i]
              buf2 == AllBuffers(s2)[i]
          IN /\ buf2.buffer = buf.buffer /\ buf2.size = buf.size
             /\ buf2.used >= buf.used
             /\ SubSeq(s2.mem[buf2.buffer], 1, buf.used) = UsedPart(s, buf)

\* C21: on defined behaviour every SerializerBuffer has used <= size; an
\* append of n bytes copies all n and adds n to used, or returns false and
\* changes nothing; over the writes used never shrinks and no byte below
\* used is overwritten.
C21_BufferInvariant ==
    /\ [](~sr.ub =>
            /\ WithinCapacity(sr)
            /\ \A i \in 1..Len(sr.m_unused_buffers), data \in AppendData :
                  AppendAllOrNothing(sr, sr.m_unused_buffers[i], data,
                                     append(sr, sr.m_unused_buffers[i], data)))
    /\ [][(~sr.ub /\ ~sr'.ub) => UsedOnlyGrows(sr, sr')]_vars

\* A buffer of three bytes holds two: an append of one byte fits, one of two
\* does not.
C21_Witness ==
    /\ ~sr.ub /\ Len(wlog) >= 1 /\ sr.m_unused_buffers # <<>>
    /\ LET buf == sr.store[Head(sr.m_unused_buffers).block][Head(sr.m_unused_buffers).idx]
       IN /\ buf.size = SmallBuffer /\ buf.used = SmallBuffer - 1
          /\ appendFits(buf, 1) /\ ~appendFits(buf, 2)
          /\ append(sr, Head(sr.m_unused_buffers), <<120, 121>>) = sr
          /\ append(sr, Head(sr.m_unused_buffers), <<120>>) # sr

(***************************************************************************)
(* Tokenizer claims: the retry loop and the scans for delimiters.          *)
(***************************************************************************)
\* The step is a call of nextToken.
IsNextToken == Len(out') = Len(out) + 1

\* The buffers a call of nextToken can scan: those in the queue at entry and
\* those addData received during the call.
C22_Available == Len(tk.data_list) + (tk'.added - tk.added)

\* The need-more-data callbacks have nothing to add.
NothingToAdd(t) == t.need_more_data_callabcks = <<>> \/ t.feed = <<>>

\* C22: a call of nextToken passes through its retry loop at most once per
\* buffer that was queued at entry or added during the call; every pass that
\* does not return a token takes one buffer from the queue; NeedMoreData is
\* returned only with the queue empty, and without a pass when the queue is
\* empty at entry and the callbacks add nothing.
C22_BoundedRetry ==
    [][IsNextToken =>
          /\ tk'.rounds - tk.rounds <= C22_Available
          /\ Len(tk'.release_log) - Len(tk.release_log)
                = C22_Available - Len(tk'.data_list)
          /\ tk'.rounds - tk.rounds
                = (Len(tk'.release_log) - Len(tk.release_log))
                  + (IF ret' = "NoError" THEN 1 ELSE 0)
          /\ ret' = "NeedMoreData" => tk'.data_list = <<>> /\ NothingToAdd(tk')
          /\ (tk.data_list = <<>> /\ NothingToAdd(tk))
                => (ret' = "NeedMoreData" /\ tk'.rounds = tk.rounds)]_vars

\* A call went through three buffers and returned NeedMoreData with the
\* queue empty.
C22_Witness ==
    /\ ret = "NeedMoreData" /\ tk.data_list = <<>>
    /\ Len(out) = 2 /\ out[1].error = "NoError"
    /\ tk.rounds = 4 /\ Len(tk.release_log) = 3 /\ tk.added = 3

(***************************************************************************)
(* Serializer claims: depth and separators.                                *)
(***************************************************************************)
RECURSIVE CountType(_, _)
\* The tokens of toks whose value type is in types.
CountType(toks, types) ==
    IF toks = <<>> THEN 0
    ELSE (IF Head(toks).value_type \in types THEN 1 ELSE 0) + CountType(Tail(toks), types)

\* Openers minus closers.
Nesting(toks) ==
    CountType(toks, {"ObjectStart", "ArrayStart"}) - CountType(toks, {"ObjectEnd", "ArrayEnd"})

\* No prefix of toks closes more containers than it opened.
WellNested(toks) == \A k \in 0..Len(toks) : Nesting(SubSeq(toks, 1, k)) >= 0

\* After writes that all returned true the depth is the number of openers
\* minus the number of closers, and it is not negative for a well-nested
\* sequence.
C23_DepthCounts ==
    (AllOk(wlog) /\ ~Crashed /\ ~sr.ub) =>
        /\ sr.m_option.m_depth = Nesting(Written(wlog))
        /\ WellNested(Written(wlog)) => sr.m_option.m_depth >= 0

\* A write that returned false left the depth as it was.
C23_FailedWriteKeepsDepth ==
    (Len(wlog') = Len(wlog) + 1 /\ ~wlog'[Len(wlog')].ok /\ ~sr'.ub /\ ~sr'.thrown)
        => sr'.m_option.m_depth = sr.m_option.m_depth

\* A closer is indented by the depth after the decrement and an opener by
\* the depth before the increment: the text is that of PrettyText.
C23_DepthOnSuccess ==
    /\ C23_DepthCounts
    /\ (Pretty /\ Accepted) => Output(sr) = PrettyText(Written(wlog), 1, 0)

\* C23: after writes that returned true the depth is openers minus closers,
\* never negative for a well-nested sequence; a closer is indented by the
\* depth after the decrement and an opener by the depth before the
\* increment; a write that returns false leaves the depth as it was.
C23_Depth == []C23_DepthOnSuccess /\ [][C23_FailedWriteKeepsDepth]_vars

\* The bytes a step added to the output.
Added(s, s2) == SubSeq(Output(s2), Len(Output(s)) + 1, Len(Output(s2)))

RECURSIVE CountByte(_, _)
CountByte(bytes, c) ==
    IF bytes = <<>> THEN 0
    ELSE (IF Head(bytes) = c THEN 1 ELSE 0) + CountByte(Tail(bytes), c)

\* The claim's rule: a token that is not a closer, after a token that was
\* not an opener.
C24_Separated(log, tok) ==
    /\ log # <<>>
    /\ ~IsStartType(log[Len(log)].token.value_type)
    /\ ~IsEndType(tok.value_type)

\* C24: the bytes a successful write adds begin with the token delimiter
\* ',' exactly when the token written before was no opener and the token is
\* no closer, they hold one comma then and none otherwise, and the first
\* token of the stream is preceded by neither a comma nor a newline.
C24_SeparatorPlacement ==
    [][(Len(wlog') = Len(wlog) + 1 /\ AllOk(wlog') /\ ~sr'.ub /\ ~sr.ub /\ ~sr'.thrown) =>
          LET tok == wlog'[Len(wlog')].token
              added == Added(sr, sr')
          IN /\ Output(sr') = Output(sr) \o added
             /\ added # <<>>
             /\ (added[1] = COMMA) <=> C24_Separated(wlog, tok)
             /\ CountByte(added, COMMA) = (IF C24_Separated(wlog, tok) THEN 1 ELSE 0)
             /\ wlog = <<>> => added[1] \notin {COMMA, NL}]_vars

\* Two siblings in an object, in Pretty style: one
\* comma in the text, behind the first sibling and before the newline.
C24_Witness ==
    /\ Pretty /\ Accepted
    /\ Written(wlog) = <<Tok_ObjectStart, Tok_A1, Tok_A1>>
    /\ CountByte(Output(sr), COMMA) = 1
    /\ Output(sr)[14] = COMMA /\ Output(sr)[15] = NL /\ Output(sr)[1] = LBRACE

(***************************************************************************)
(* Tokenizer claims: the scans for the delimiter and for the token end.    *)
(***************************************************************************)
\* A return of nextToken with an error: the caller's token is not looked at.
Fails(error) == Returns(error, <<>>, "String", <<>>, "String")

\* Texts in which a name or an anonymous value is followed by skipped
\* bytes, ',', ']', '}' or another value.
C25_Docs == {Doc_Skips, Doc_BraceAfter, Doc_NoColon, Doc_Newline, Doc_Strings}

\* What the delimiter scan makes of each text: the value in front of ',' or
\* ']' is returned with its bytes and type, any byte that is not skipped and
\* no delimiter ends the run with ExpectedDelimiter.
C25_Expected ==
    IF Doc = Doc_Skips
    THEN <<Anonymous(<<LBRACKET>>, "ArrayStart"), Anonymous(<<97>>, "String"),
           Anonymous(<<49>>, "Number"), Anonymous(<<RBRACKET>>, "ArrayEnd")>>
    ELSE IF Doc = Doc_Strings
    THEN <<Anonymous(<<LBRACKET>>, "ArrayStart"), Anonymous(<<97>>, "String"),
           Anonymous(<<98>>, "String"), Anonymous(<<RBRACKET>>, "ArrayEnd")>>
    ELSE IF Doc = Doc_NoColon
    THEN <<Anonymous(<<LBRACE>>, "ObjectStart"), Fails("ExpectedDelimiter")>>
    ELSE <<Anonymous(<<LBRACKET>>, "ArrayStart"), Fails("ExpectedDelimiter")>>

\* C25: behind a name or an anonymous value the scan skips space, tab,
\* newline and NUL; ',' (consumed) and ']' (not consumed) return the value
\* scanned before as an anonymous token with its bytes and type; any other
\* byte, '}' included, gives ExpectedDelimiter.
C25_DelimiterScan ==
    Doc \in C25_Docs =>
        /\ IsPrefix(Returned(out), C25_Expected)
        /\ Finished => Returned(out) = C25_Expected

\* The same for a text that is fed as one buffer.
C25_InOneBuffer == SingleBuffer => C25_DelimiterScan

\* Texts in which a value is followed by a newline or by another byte that
\* is no delimiter.
C26_Docs == {Doc_ObjNewline, Doc_Newline, Doc_Junk}

\* What the token-end scan makes of each text: with newlines allowed as
\* delimiters the newline separates the two values, of the object and of
\* the array; without, it is skipped and the property behind it is an
\* invalid token, as is the x of {"a":1 x}.
C26_Expected ==
    IF Doc = Doc_Junk
    THEN <<Anonymous(<<LBRACE>>, "ObjectStart"), Property(<<97>>, <<49>>, "Number"),
           Fails("InvalidToken")>>
    ELSE IF Doc = Doc_ObjNewline
    THEN IF tk.allow_new_lines
         THEN <<Anonymous(<<LBRACE>>, "ObjectStart"), Property(<<97>>, <<49>>, "Number"),
                Property(<<98>>, <<50>>, "Number"), Anonymous(<<RBRACE>>, "ObjectEnd")>>
         ELSE <<Anonymous(<<LBRACE>>, "ObjectStart"), Property(<<97>>, <<49>>, "Number"),
                Fails("InvalidToken")>>
    ELSE <<Anonymous(<<LBRACKET>>, "ArrayStart"), Anonymous(<<49>>, "Number"),
           Anonymous(<<50>>, "Number"), Anonymous(<<RBRACKET>>, "ArrayEnd")>>

\* C26: behind a value ',' is consumed, ']' and '}' are left for the next
\* call, a newline ends the token when allowNewLineAsTokenDelimiter is true
\* and is skipped when it is false, and any other byte that is not skipped
\* gives InvalidToken; an allowed newline separates array elements as it
\* separates the properties of an object.
C26_TokenEndScan ==
    (Doc \in C26_Docs /\ SingleBuffer /\ (Doc = Doc_Newline => tk.allow_new_lines)) =>
        /\ IsPrefix(Returned(out), C26_Expected)
        /\ Finished => Returned(out) = C26_Expected

\* The same for the values of an object's properties only.
C26_ForProperties == Doc # Doc_Newline => C26_TokenEndScan

(***************************************************************************)
(* The type of a bareword.                                                 *)
(***************************************************************************)
C27_Docs == {Doc_Literals, Doc_NearLiterals, Doc_TrueValue}

\* The first buffer reaches into the first bareword of the text, so that
\* every cut lies in or between barewords.
C27_SplitInBarewords ==
    \/ SingleBuffer
    \/ Doc = Doc_Literals
    \/ Doc = Doc_NearLiterals /\ Len(chunks[1]) >= 8
    \/ Doc = Doc_TrueValue /\ Len(chunks[1]) >= 6

C27_Expected ==
    IF Doc = Doc_Literals
    THEN <<Anonymous(<<LBRACKET>>, "ArrayStart"), Anonymous(null_text, "Null"),
           Anonymous(true_text, "Bool"), Anonymous(false_text, "Bool"),
           Anonymous(<<RBRACKET>>, "ArrayEnd")>>
    ELSE IF Doc = Doc_NearLiterals
    THEN <<Anonymous(<<LBRACKET>>, "ArrayStart"), Anonymous(true_text, "String"),
           Anonymous(<<110, 117, 108>>, "Ascii"),
           Anonymous(<<110, 117, 108, 108, 115>>, "Ascii"),
           Anonymous(<<116, 114, 117, 69>>, "Ascii"),
           Anonymous(<<RBRACKET>>, "ArrayEnd")>>
    ELSE <<Anonymous(<<LBRACE>>, "ObjectStart"), Property(<<97>>, true_text, "Bool"),
           Anonymous(<<RBRACE>>, "ObjectEnd")>>

\* The type of a returned span agrees with its bytes.
RightlyTyped(type, bytes) ==
    /\ type = "Null" => bytes = null_text
    /\ type = "Bool" => bytes \in {true_text, false_text}
    /\ type = "Ascii" => bytes \notin {null_text, true_text, false_text}

\* C27: a returned span has type Null only if its bytes are null, Bool only
\* if they are true or false, and Ascii only if they are none of the three;
\* a quoted "true" stays a String; nul, nulls and truE are Ascii; and a
\* bareword that lies in two or three buffers gets the type of the unsplit
\* one.
C27_BarewordType ==
    /\ \A i \in 1..Len(out) :
          out[i].error = "NoError" =>
              /\ RightlyTyped(out[i].token.value_type, out[i].token.value)
              /\ out[i].token.name # <<>> =>
                    RightlyTyped(out[i].token.name_type, out[i].token.name)
    /\ (Doc \in C27_Docs /\ tk.allow_ascii_properties /\ C27_SplitInBarewords) =>
          /\ IsPrefix(Returned(out), C27_Expected)
          /\ Exhausted => Returned(out) = C27_Expected

\* {"a":true} came in the three buffers {"a":t, r and ue} and gave a Bool.
C27_Witness ==
    /\ Doc = Doc_TrueValue /\ Len(chunks) = 3
    /\ Len(chunks[1]) = 6 /\ Len(chunks[2]) = 1
    /\ tk.allow_ascii_properties /\ Exhausted
    /\ Returned(out) = C27_Expected


(***************************************************************************)
(* Sequences, nullable-owned values and optionals, checked under           *)
(* DecodeSpec and CodecSpec.                                               *)
(***************************************************************************)
C28_Case == Decoded /\ cx.type = S_Vec

\* The texts in which the token directly behind the opening bracket cannot
\* be read: a missing comma behind it, and the end of the text.
C28_FirstTokenFails == cx.text \in {Txt_VecBadFirst, Txt_VecCut}

\* The first error that occurs while the text is decoded.
C28_FirstError ==
    IF cx.text \in {Txt_Vec123, Txt_VecEmpty} THEN "NoError"
    ELSE IF cx.text = Txt_VecScalar THEN "ExpectedArrayStart"
    ELSE IF cx.text = Txt_VecBadElem THEN "FailedToParseInt"
    ELSE IF cx.text = Txt_VecCut THEN "NeedMoreData"
    ELSE "ExpectedDelimiter"

\* The elements of a text that decodes.
C28_Elements == IF cx.text = Txt_Vec123 THEN <<1, 2, 3>> ELSE <<>>

C28_Outcome ==
    /\ cx.context.error = C28_FirstError
    /\ cx.context.error = "NoError" => cx.result = <<C28_Elements>>
    /\ cx.text = Txt_VecScalar =>
          \* two tokens were read: the brace and the property
          /\ cx.context.tokenizer.rounds = 2
          /\ cx.context.token.value_type = "Number"
          /\ cx.result = cx.x
    /\ C28_FirstTokenFails => cx.result = <<<<>>>>

\* C28: a sequence decode returns ExpectedArrayStart without reading a token
\* when the current token is not ArrayStart; otherwise it decodes one element
\* per token up to ArrayEnd and returns the first error of an element's
\* decode or of a nextToken call, the one directly behind ArrayStart
\* included, from whose stale token no element is decoded; on success the
\* target holds the elements in input order.
C28_SequenceDecode == C28_Case => C28_Outcome

\* The same for the texts whose first token behind the bracket is read.
C28_BehindFirstToken == (C28_Case /\ ~C28_FirstTokenFails) => C28_Outcome

\* struct { int p; }: the member of S_Ptr without the unique_ptr.
S_PInt == TStruct(<<Member(<<112>>, TInt)>>)

\* The decode of a text whose property p is given.
C29_Case == Decoded /\ cx.type = S_Ptr /\ cx.text # Txt_None

\* What T's decode makes of the same token, started on a T().
C29_Plain == parseData(S_PInt, ValueInit(S_PInt), makeParseContextForData(cx.text))

\* {, newline, four spaces, "p" : null, newline, }
C29_NullText ==
    <<123, 10, 32, 32, 32, 32, 34, 112, 34, 32, 58, 32, 110, 117, 108, 108, 10, 125>>

C29_Decode ==
    C29_Case =>
        IF cx.text = Txt_PtrNull
        THEN ~cx.result[1].present /\ cx.context.error = "NoError"
        ELSE /\ cx.result[1].present
             /\ cx.result[1].data = C29_Plain.value[1]
             /\ cx.context.error = C29_Plain.ctx.error
             /\ cx.text = Txt_PtrFive =>
                   (cx.result[1].data = 5 /\ cx.context.error = "NoError")
             /\ cx.text \in {Txt_PtrTrue, Txt_PtrString} =>
                   cx.context.error = "FailedToParseInt"

C29_Encode ==
    (Encoded /\ cx.type = S_Ptr) =>
        IF cx.result[1].present
        THEN \E stack_byte \in StackBytes :
                cx.encoded = serializeStruct(S_PInt, <<cx.result[1].data>>, stack_byte)
        ELSE cx.encoded = C29_NullText

\* C29: decoding a token of type Null into a unique_ptr leaves it absent,
\* whatever it held, with NoError; any other token makes it present with a
\* new T into which the token is decoded, and that decode's error is
\* returned.  Encoding an absent unique_ptr writes the token null of type
\* Null under the member's name; encoding a present one writes what T's
\* encode writes.
C29_NullableOwned == C29_Decode /\ C29_Encode

\* A unique_ptr that held 7 decoded null, and was then encoded.
C29_Witness ==
    /\ Encoded /\ cx.type = S_Ptr /\ cx.text = Txt_PtrNull
    /\ cx.x[1].present /\ ~cx.result[1].present
    /\ cx.encoded = C29_NullText

\* A unique_ptr that was absent holds the new T of a decode that failed.
C29_WitnessFailed ==
    /\ Encoded /\ cx.type = S_Ptr /\ cx.text = Txt_PtrTrue
    /\ ~cx.x[1].present /\ cx.result[1].present
    /\ cx.context.error = "FailedToParseInt"

\* struct { Optional<int> o; std::unique_ptr<int> p; }: S_Opt without c.
S_OP == TStruct(<<Member(<<111>>, TOptional(TInt)), Member(<<112>>, TUniquePtr(TInt))>>)

\* The types all of whose members are of an optional shape.
C30_Case == Decoded /\ cx.type \in {S_Opt, S_Ptr}

\* The texts that give the OptionalChecked member c.
C30_Given == cx.type = S_Opt /\ cx.text \in {Txt_ChkTrue, Txt_ChkOne}

C30_Assigned ==
    (C30_Case /\ C30_Given) =>
        /\ cx.result[2].assigned
        /\ cx.text = Txt_ChkTrue => (cx.result[2].data /\ cx.context.error = "NoError")

\* No member is reported, and the decode of an object that gives none of
\* them succeeds and leaves the value as it was.
C30_NoneRequired ==
    C30_Case =>
        /\ cx.context.unassigned_required_members = <<>>
        /\ cx.context.error # "UnassignedRequiredMember"
        /\ cx.text = Txt_None => (cx.context.error = "NoError" /\ cx.result = cx.x)

\* An unassigned c leaves the text of the struct that has no member c.
C30_Skipped ==
    (Encoded /\ cx.type = S_Opt /\ ~cx.result[2].assigned) =>
        \E stack_byte \in StackBytes :
            cx.encoded = serializeStruct(S_OP, <<cx.result[1], cx.result[3]>>, stack_byte)

\* C30: decoding a property into an OptionalChecked member sets assigned;
\* encoding an OptionalChecked whose assigned is false writes no name, no
\* value and no separator for it; and an object that lacks a property of
\* type Optional, OptionalChecked or unique_ptr is not reported as lacking a
\* required member, whether or not missing and unassigned members are
\* allowed.
C30_OptionalShapes == C30_Assigned /\ C30_NoneRequired /\ C30_Skipped

\* {, newline, four spaces, "o" : -1, comma, newline, four spaces,
\* "p" : null, newline, }
C30_SkippedText ==
    <<123, 10, 32, 32, 32, 32, 34, 111, 34, 32, 58, 32, 45, 49, 44, 10,
      32, 32, 32, 32, 34, 112, 34, 32, 58, 32, 110, 117, 108, 108, 10, 125>>

\* {} decoded with missing and unassigned members forbidden, and encoded.
C30_Witness ==
    /\ Encoded /\ cx.type = S_Opt /\ cx.text = Txt_None
    /\ ~Soft /\ ~Lenient
    /\ cx.context.error = "NoError"
    /\ ~cx.result[2].assigned
    /\ cx.encoded = C30_SkippedText

\* {"c":1}: c is assigned although its value did not decode.
C30_WitnessAssigned ==
    /\ Decoded /\ cx.type = S_Opt /\ cx.text = Txt_ChkOne
    /\ cx.result[2].assigned /\ cx.context.error = "FailedToParseBoolen"
(***************************************************************************)
(* The order of a struct's members in its text, checked under CodecSpec.   *)
(***************************************************************************)
RECURSIVE MemberTokens(_, _, _)
RECURSIVE MembersInOrder(_, _, _)

\* The tokens of a value of type int, bool or struct under a name: the
\* opening brace under the name, the members from index 1 on, the closing
\* brace under no name.
MemberTokens(type, value, name) ==
    CASE type.kind = "int" -> <<SerToken("Ascii", name, "Number", IntText(value))>>
      [] type.kind = "bool" ->
            <<SerToken("Ascii", name, "Bool", IF value THEN true_text ELSE false_text)>>
      [] type.kind = "struct" ->
            <<SerToken("Ascii", name, "ObjectStart", <<LBRACE>>)>>
            \o MembersInOrder(type.members, value, 1)
            \o <<SerToken("String", <<>>, "ObjectEnd", <<RBRACE>>)>>

MembersInOrder(members, value, i) ==
    IF i > Len(members) THEN <<>>
    ELSE MemberTokens(members[i].type, value[i], members[i].name)
         \o MembersInOrder(members, value, i + 1)

\* The structs whose members are of type int, bool or struct.
C31_Case == cx.phase # "start" /\ cx.type \in {S_Der, S_Mid, S_Bool}

\* {, "b" : 2, "d" : 4, "a" : 1, "c" : 3, }: one token a line.
C31_DerText ==
    <<123, 10, 32, 32, 32, 32, 34, 98, 34, 32, 58, 32, 50, 44, 10,
      32, 32, 32, 32, 34, 100, 34, 32, 58, 32, 52, 44, 10,
      32, 32, 32, 32, 34, 97, 34, 32, 58, 32, 49, 44, 10,
      32, 32, 32, 32, 34, 99, 34, 32, 58, 32, 51, 10, 125>>

\* C31: the text of a struct is that of ObjectStart, the members in the
\* order they were declared, each once (the type's own before those of its
\* super classes), and ObjectEnd under an empty name.
C31_DeclaredOrder ==
    C31_Case =>
        /\ cx.text = PrettyText(MemberTokens(cx.type, cx.x, <<>>), 1, 0)
        /\ (cx.type = S_Der /\ cx.x = <<2, 4, 1, 3>>) => cx.text = C31_DerText
        /\ cx.type = S_Der =>
              [i \in 1..4 |-> cx.type.members[i].name] = <<(<<98>>), (<<100>>), (<<97>>), (<<99>>)>>

\* Der with b = 2, d = 4 and the super classes' a = 1, c = 3 was serialized.
C31_Witness ==
    /\ cx.phase = "serialized" /\ cx.type = S_Der /\ cx.x = <<2, 4, 1, 3>>
    /\ cx.text = C31_DerText

\* A struct in a struct: the inner closing brace stands under no name.
C31_WitnessNested ==
    /\ cx.phase = "serialized" /\ cx.type = S_Mid /\ cx.x = <<9, <<TRUE>>, 8>>
    /\ Len(MemberTokens(cx.type, cx.x, <<>>)) = 7
    /\ cx.text = PrettyText(MemberTokens(cx.type, cx.x, <<>>), 1, 0)

(***************************************************************************)
(* The int parser's buffer, checked under CodecSpec.                       *)
(***************************************************************************)
C32_Case == cx.phase # "start" /\ cx.type = S_Int

\* The span of the Number token the int parser writes for the value.
C32_Span == SnprintfSpan(IntText(cx.x[1]), IntBufSize, cx.stack_byte)

C32_Fits ==
    \* the text and its terminator have room in buf
    /\ Len(IntText(cx.x[1])) + 1 <= IntBufSize
    \* the span is as long as the text, lies in buf and holds the text
    /\ Len(C32_Span) = Len(IntText(cx.x[1]))
    /\ Len(C32_Span) <= IntBufSize
    /\ C32_Span = IntText(cx.x[1])
    /\ cx.text = PrettyText(MemberTokens(S_Int, cx.x, <<>>), 1, 0)

\* C32: the int parser's buffer has room for the decimal text of every int,
\* sign and terminator included, so the span of the Number token is as long
\* as the decimal text and no longer than the buffer.
C32_BufferFitsEveryInt == C32_Case => C32_Fits

\* The same for the ints whose text has at most nine characters.
C32_BufferFitsNineChars ==
    (C32_Case /\ Len(IntText(cx.x[1])) < IntBufSize) => C32_Fits

(***************************************************************************)
(* Keys that occur more than once, checked under DecodeSpec.               *)
(***************************************************************************)
C33_Case == Decoded /\ cx.text \in {Txt_DupA, Txt_DupVA}

\* C33: a key that occurs more than once is not detected: the decode
\* returns NoError, every occurrence is decoded into the member the first
\* one was decoded into (so the int holds the last value and the vector the
\* elements of both arrays), and the key is neither in missing_members nor
\* in unassigned_required_members.
C33_DuplicateKeys ==
    C33_Case =>
        /\ cx.context.error = "NoError"
        /\ cx.context.missing_members = <<>>
        /\ cx.context.unassigned_required_members = <<>>
        /\ cx.context.token.value_type = "ObjectEnd"
        /\ cx.text = Txt_DupA => cx.result = <<3, 2>>
        /\ cx.text = Txt_DupVA => cx.result = <<<<1, 2>>, 6>>

\* {"v":[1],"a":5,"v":[2],"a":6} was decoded with missing members forbidden.
C33_Witness ==
    /\ C33_Case /\ cx.text = Txt_DupVA /\ ~Soft /\ ~Lenient
    /\ cx.result = <<<<1, 2>>, 6>>

(***************************************************************************)
(* The error context, checked under ErrSpec.                               *)
(***************************************************************************)
\* The tokenizer without its error context and the configuration of it.
ScanState(t) ==
    [t EXCEPT !.error_context = NewErrorContext,
              !.line_context = NewTokenizer.line_context,
              !.range_context = NewTokenizer.range_context]

\* The same calls on a tokenizer whose configuration was never set.
C34_Default ==
    Replay(TokenizerFor(PolicyOf(tk), chunks, "persistent"), NewToken, <<>>, Len(out))

\* What the calls returned and the scanning state do not depend on the
\* configuration.
C34_SameAsDefault ==
    /\ out = C34_Default.log
    /\ ScanState(tk) = ScanState(C34_Default.tk)

\* The record is clear unless the last call returned a terminal error.
C34_RecordOnTerminalOnly ==
    IF IsTerminal(ret)
    THEN tk.error_context.error = ret
    ELSE tk.error_context = NewErrorContext

\* C34: building the error context changes no parse outcome and no scanning
\* state: every nextToken call returns, what the calls return and the
\* cursor, queue, phases and intermediate token they leave are the same
\* under every setErrorContextConfig, and the record is clear after every
\* call but one that returned a terminal error.
C34_ContextIsAdditive ==
    /\ ~Ended
    /\ C34_SameAsDefault
    /\ C34_RecordOnTerminalOnly

\* The same for the runs in which every call returned.
C34_UnlessEnded == ~Ended => (C34_SameAsDefault /\ C34_RecordOnTerminalOnly)

\* The last call returned a terminal error, so that updateErrorContext ran.
C35_Recorded == ~Ended /\ IsTerminal(ret)

\* Every byte updateErrorContext read lay in the buffer.
C35_ReadsInside == ~tk.error_context.stray

\* Each recorded line satisfies 0 <= start <= end <= buffer length.
C35_LinesInside ==
    \A i \in 1..Len(tk.error_context.spans) :
        /\ 0 <= tk.error_context.spans[i].start
        /\ tk.error_context.spans[i].start <= tk.error_context.spans[i].end
        /\ tk.error_context.spans[i].end <= tk.error_context.size

\* The recorded line index is that of a recorded line.
C35_LineRecorded == tk.error_context.line < Len(tk.error_context.lines)

\* The recorded column is at least 1 and at most one past the line's length.
C35_ColumnInLine ==
    /\ tk.error_context.character >= 1
    /\ C35_LineRecorded =>
          tk.error_context.character
              <= Len(tk.error_context.lines[tk.error_context.line + 1]) + 1

\* C35: on every terminal error the error-context window is bounded by the
\* current buffer: updateErrorContext reads no byte outside the buffer (so
\* the call returns), each recorded line satisfies
\* 0 <= start <= end <= buffer length, the recorded line index is smaller
\* than the number of recorded lines, and the recorded column is at least 1
\* and at most one past the length of that line.
C35_WindowInBuffer ==
    /\ ~Ended
    /\ C35_Recorded =>
          /\ C35_ReadsInside
          /\ C35_LinesInside
          /\ C35_LineRecorded
          /\ C35_ColumnInLine

\* The parts of C35, each for the calls that returned a terminal error.
C35_PartReads == C35_Recorded => C35_ReadsInside
C35_PartLines == C35_Recorded => C35_LinesInside
C35_PartLine == C35_Recorded => C35_LineRecorded
C35_PartColumn == C35_Recorded => C35_ColumnInLine

\* The recorded line index is always that of a recorded line, and the lines
\* of a call that read inside the buffer lie inside it.
C35_InsideWhenReadInside ==
    C35_Recorded => /\ C35_LineRecorded
                    /\ C35_ReadsInside => C35_LinesInside

\* The callbacks in the order of their registration: 1, 2, ...
C36_Ids == [k \in 1..Len(tk.callbacks_registered) |-> k]

\* Whether the request with the given number has to invoke callback k: k was
\* registered before the request, and if one-shot, no request was made
\* between its registration and this one.
C36_Due(k, request) ==
    /\ tk.callbacks_registered[k].at < request
    /\ tk.callbacks_registered[k].one_shot =>
           tk.callbacks_registered[k].at = request - 1

\* The callbacks the request has to invoke, in registration order.
C36_Expected(request) == SelectSeq(C36_Ids, LAMBDA k : C36_Due(k, request))

\* The callbacks still registered: the persistent ones and the one-shot ones
\* registered since the last request.
C36_Registered ==
    SelectSeq(C36_Ids, LAMBDA k : C36_Due(k, Len(tk.requests) + 1))

\* C36: every request for data invokes each registered callback once, in
\* registration order; a one-shot callback is invoked by the first request
\* after its registration only and is removed by it, a persistent callback
\* stays registered and is invoked by every request.
C36_CallbacksPerRequest ==
    /\ \A request \in 1..Len(tk.requests) :
          tk.requests[request] = C36_Expected(request)
    /\ tk.need_more_data_callabcks =
          [i \in 1..Len(C36_Registered) |->
              [one_shot |-> tk.callbacks_registered[C36_Registered[i]].one_shot,
               id |-> C36_Registered[i]]]

\* Two requests were made while a one-shot callback and a persistent one,
\* the one-shot first, were registered: the first invoked both, the second
\* the persistent one only.
C36_Witness ==
    /\ Len(tk.requests) >= 2
    /\ Len(tk.callbacks_registered) >= 2
    /\ tk.callbacks_registered[1].one_shot
    /\ ~tk.callbacks_registered[2].one_shot
    /\ tk.requests[1] = <<1, 2>>
    /\ tk.requests[2] = <<2>>

\* A request is made by every nextToken call that finds the queue empty, and
\* the call returns NeedMoreData only behind a request that left it empty.
C36_RequestsWhenEmpty ==
    [][(tk.data_list = <<>> /\ out' # out) =>
           /\ Len(tk'.requests) > Len(tk.requests)
           /\ ret' = "NeedMoreData" => tk'.data_list = <<>>]_vars

\* The buffers addData has received and the release callback has not, in the
\* order of their addData calls.
C37_Pending == [i \in 1..(tk.added - Len(tk.released)) |-> Len(tk.released) + i]

\* C37: buffers leave the tokenizer in FIFO order: the release callback has
\* been called with the buffers in the order of their addData calls, each
\* once, the queue holds the other buffers in that order, so that every
\* release took the front; the cursor is 0 while no buffer is queued, so
\* that it is 0 when a buffer becomes the front, and never lies behind the
\* front buffer's end.
C37_FifoRelease ==
    /\ tk.released = [i \in 1..Len(tk.released) |-> i]
    /\ [i \in 1..Len(tk.data_list) |-> tk.data_list[i].id] = C37_Pending
    /\ tk.data_list = <<>> => tk.cursor_index = 0
    /\ tk.data_list # <<>> => tk.cursor_index <= Len(Head(tk.data_list).bytes)

\* Two buffers were released with a third waiting behind them, which is now
\* the front and under scan.
C37_Witness ==
    /\ tk.released = <<1, 2>>
    /\ tk.added = 3
    /\ tk.data_list # <<>>
    /\ tk.cursor_index > 0
    /\ rest = <<>>

\* A step releases nothing or a run of buffers from the front on, and a
\* step that puts a buffer to the front of an empty queue without a
\* nextToken call leaves the cursor at 0.
C37_FrontOnly ==
    [][/\ \/ tk'.released = tk.released
          \/ /\ Len(tk'.released) > Len(tk.released)
             /\ tk.data_list # <<>> \/ Len(tk'.requests) > Len(tk.requests)
             /\ SubSeq(tk'.released, 1, Len(tk.released)) = tk.released
       /\ (tk.data_list = <<>> /\ tk'.data_list # <<>> /\ out' = out) =>
              tk'.cursor_index = 0]_vars

\* The span lies wholly in the storage it names: the intermediate token's
\* name or data string, or the buffer at the front of the queue.
C38_Alive(ref) ==
    /\ ref.off >= 0
    /\ IF ref.buf = INAME THEN ref.off + ref.size <= Len(tk.intermediate_token.name)
       ELSE IF ref.buf = IDATA THEN ref.off + ref.size <= Len(tk.intermediate_token.data)
       ELSE /\ tk.data_list # <<>>
            /\ ref.buf = Head(tk.data_list).id
            /\ ref.buf \notin {tk.released[i] : i \in 1..Len(tk.released)}
            /\ ref.off + ref.size <= Len(Head(tk.data_list).bytes)

\* C38: when nextToken returns NoError, every non-empty name or value span
\* of the token lies wholly in the buffer at the front of the queue, which
\* has not been released, or wholly in the intermediate token's storage.
C38_SpansAlive ==
    ret = "NoError" =>
        /\ token.name.size > 0 => C38_Alive(token.name)
        /\ token.value.size > 0 => C38_Alive(token.value)

\* A call returned a property whose name lies in the intermediate token and
\* whose value lies in the front buffer, buffers having been released.
C38_Witness ==
    /\ ret = "NoError"
    /\ tk.released # <<>>
    /\ token.name.size > 0 /\ token.name.buf = INAME
    /\ token.value.size > 0 /\ token.value.buf = IDATA

\* A call returned a token that lies in the second buffer, the first being
\* released.
C38_WitnessFront ==
    /\ ret = "NoError"
    /\ tk.released = <<1>>
    /\ token.name.size > 0 /\ token.name.buf = 2

\* Whether the bytes stand in the text, one behind the other.
C39_InText(bytes) ==
    \/ bytes = <<>>
    \/ \E k \in 1..(Len(Doc) - Len(bytes) + 1) :
          SubSeq(Doc, k, k + Len(bytes) - 1) = bytes

\* A call that does not continue a suspension starts with the intermediate
\* token inactive, its strings empty and its types unset.
C39_CleanAtStart ==
    ~tk.continue_after_need_more_data =>
        resetForNewToken(tk).intermediate_token = NewIntermediateToken

\* No returned name or value holds bytes of two tokens: each stands in the
\* text as a whole.  A NUL byte ends a bareword early, so that the rest of
\* the claim is stated for the texts without one.
C39_NothingCarriedOver ==
    (\A k \in 1..Len(Doc) : Doc[k] # NUL) =>
        \A i \in 1..Len(out) :
            /\ C39_InText(out[i].token.name)
            /\ C39_InText(out[i].token.value)

\* The step made the intermediate token active: it is active and not as the
\* step found it, and the step did not continue a suspension that had made
\* it active before.
C39_Activated ==
    /\ tk'.intermediate_token.active
    /\ tk'.intermediate_token # tk.intermediate_token
    /\ ~(tk.intermediate_token.active /\ tk.continue_after_need_more_data)

\* The step released a buffer on a suspension: the scan met the end of the
\* buffer inside a token.
C39_Suspended ==
    \E i \in (Len(tk.release_log) + 1)..Len(tk'.release_log) :
        tk'.release_log[i].error = "NeedMoreData"

C39_WitnessServed ==
    /\ ret = "NoError"
    /\ tk.intermediate_token.active
    /\ token.value.size > 0 /\ token.value.buf = IDATA
    /\ ~tk.continue_after_need_more_data

\* C40: no assert of the Tokenizer fails: property_state is NoStartFound on
\* every entry of findStartOfNextValue, property_type is Ascii on every entry
\* of findAsciiEnd, a scan resumed in a later buffer included, and
\* cursor_index is at most the length of the front buffer whenever
\* updateErrorContext runs.
C40_NoAssertFails == tk.asserts.failed = {}

\* Whether the value of the i-th return began at the end of one buffer and
\* went on at the start of the next.
C40_Resumed(i) ==
    \E k \in 1..(Len(chunks) - 1) :
        \E n \in 1..(Len(out[i].token.value) - 1) :
            /\ Len(chunks[k]) >= n
            /\ SubSeq(chunks[k], Len(chunks[k]) - n + 1, Len(chunks[k]))
                   = SubSeq(out[i].token.value, 1, n)
            /\ IsPrefix(SubSeq(out[i].token.value, n + 1, Len(out[i].token.value)),
                        chunks[k + 1])

\* A bareword cut by the end of a buffer was scanned to its end in the next
\* buffer, findAsciiEnd being entered again with the type restored from the
\* intermediate token, and returned.
C40_Witness ==
    /\ {"findStartOfNextValue", "findAsciiEnd"} \subseteq tk.asserts.held
    /\ \E i \in 1..Len(out) :
          /\ out[i].error = "NoError"
          /\ out[i].token.value_type \in {"Bool", "Null", "Ascii"}
          /\ C40_Resumed(i)

\* updateErrorContext ran on a terminal error behind a bareword.
C40_WitnessError ==
    /\ tk.asserts.held = {"findStartOfNextValue", "findAsciiEnd", "updateErrorContext"}
    /\ IsTerminal(ret)
(***************************************************************************)
(* Specifications.                                                         *)
(***************************************************************************)
TokIdle == tk = NewTokenizer /\ token = NewToken /\ ret = "NoError" /\ out = <<>>
           /\ rest = <<>> /\ chunks = <<>>

SerIdle == sr = NewSerializer /\ wlog = <<>>

CodecIdle == cx = 0

Init == TokInit /\ SerIdle /\ CodecIdle

Next == AddData \/ NextToken \/ RegisterTokenTransformer

Spec == Init /\ [][Next]_vars

SerSpecInit == SerInit /\ TokIdle /\ CodecIdle

SerNext == Write \/ AppendBuffer

SerSpec == SerSpecInit /\ [][SerNext]_vars

CodecSpecInit == CodecInit /\ TokIdle /\ SerIdle

CodecNext == Serialize \/ Parse

CodecSpec == CodecSpecInit /\ [][CodecNext]_vars

DecodeSpecInit == DecodeInit /\ TokIdle /\ SerIdle

DecodeNext == SetMissingFatal \/ SetUnassignedFatal \/ AllowAsciiType \/ Decode \/ Encode

DecodeSpec == DecodeSpecInit /\ [][DecodeNext]_vars

ErrSpecInit == ErrInit /\ SerIdle /\ CodecIdle

ErrNext == SetErrorContextConfig \/ NextTokenOrCrash

ErrSpec == ErrSpecInit /\ [][ErrNext]_vars

FeedSpecInit == FeedInit /\ SerIdle /\ CodecIdle

FeedNext == RegisterNeedMoreDataCallback \/ NextTokenFed

FeedSpec == FeedSpecInit /\ [][FeedNext]_vars
====
